---- MODULE Spec2Model ----
(***************************************************************************)
(* A model of simple-notes: the access-token codec (server/auth), the      *)
(* request authentication paths (Connect interceptor, gRPC-Gateway, file   *)
(* server) and the note, attachment and user handlers with the permission  *)
(* checks they apply.                                                       *)
(***************************************************************************)
EXTENDS Integers, Sequences, FiniteSets, TLC

(***************************************************************************)
(* Bounds of the model.                                                    *)
(***************************************************************************)
\* Clock ticks per second: Go's time.Time is finer than the one-second
\* precision of a JWT NumericDate.
TicksPerSecond == 2
\* How many seconds past the token lifetime the clock may run.
MaxExtraSeconds == 1
\* How many notes are ever created.
MaxNotes == 1
\* How many attachments are ever created.
MaxAttachments == 1

(***************************************************************************)
(* Program constants (server/auth/token.go).                               *)
(***************************************************************************)
Issuer == "simple-notes"
KeyID == "v1"
AccessTokenAudienceName == "user.access-token"
\* AccessTokenDuration = 24 * time.Hour, in seconds.
AccessTokenDurationSeconds == 86400
AccessTokenDuration == AccessTokenDurationSeconds * TicksPerSecond
SigningMethodHS256 == "HS256"

MaxInt32 == 2147483647
MinInt32 == -MaxInt32 - 1

None == "NONE"

(***************************************************************************)
(* Decimal formatting and parsing of the token subject.                    *)
(***************************************************************************)
DigitChars == <<"0", "1", "2", "3", "4", "5", "6", "7", "8", "9">>

DigitValue(c) == CHOOSE d \in 0..9 : DigitChars[d + 1] = c

IsDigit(c) == \E d \in 0..9 : DigitChars[d + 1] = c

RECURSIVE NatToString(_)
NatToString(n) ==
    IF n < 10 THEN <<DigitChars[n + 1]>>
    ELSE NatToString(n \div 10) \o <<DigitChars[(n % 10) + 1]>>

\* The decimal digits of n <= 0, computed without negating n (-MinInt32 is
\* not an int32).
RECURSIVE NegToString(_)
NegToString(n) ==
    LET d == (10 - (n % 10)) % 10
    IN  IF n > -10 THEN <<DigitChars[d + 1]>>
        ELSE NegToString((n + d) \div 10) \o <<DigitChars[d + 1]>>

\* Mutant: the sign of a negative id is lost.
FmtSprint_NoSign(i) == IF i < 0 THEN NegToString(i) ELSE NatToString(i)

\* fmt.Sprint(userID) for an int32.
FmtSprint(i) == IF i < 0 THEN <<"-">> \o NegToString(i) ELSE NatToString(i)

\* The digits of s accumulated as a non-positive number; out of range as
\* soon as the value would leave the int32 range (strconv's ErrRange).
RECURSIVE DigitsToNeg(_, _)
DigitsToNeg(s, acc) ==
    IF s = <<>> THEN [ok |-> TRUE, value |-> acc]
    ELSE LET d == DigitValue(Head(s))
         IN  IF acc < MinInt32 \div 10 + 1 \/ acc * 10 < MinInt32 + d
             THEN [ok |-> FALSE, value |-> 0]
             ELSE DigitsToNeg(Tail(s), acc * 10 - d)

\* strconv.ParseInt(src, 10, 32) followed by int32(parsed).
ConvertStringToInt32(src) ==
    LET signed == src # <<>> /\ Head(src) \in {"+", "-"}
        neg == signed /\ Head(src) = "-"
        digits == IF signed THEN Tail(src) ELSE src
        syntaxOK == digits # <<>> /\ \A k \in 1..Len(digits) : IsDigit(digits[k])
        mag == IF syntaxOK THEN DigitsToNeg(digits, 0) ELSE [ok |-> FALSE, value |-> 0]
    IN  IF ~mag.ok THEN [ok |-> FALSE, value |-> 0]
        ELSE IF neg THEN [ok |-> TRUE, value |-> mag.value]
        ELSE IF mag.value = MinInt32 THEN [ok |-> FALSE, value |-> 0]
        ELSE [ok |-> TRUE, value |-> -mag.value]

(***************************************************************************)
(* State.                                                                  *)
(***************************************************************************)
VARIABLES
    now,        \* the server clock, in ticks
    token,      \* token codec: the token string under study
    issued,     \* token codec: the arguments and result of GenerateAccessTokenV2
    authed,     \* token codec: the result of the last AuthenticateByAccessTokenV2
    header,     \* resolver: the Authorization header value under study
    resolved,   \* resolver: the result of Authenticate on that header
    users,      \* the users table: user id -> row
    notes,      \* the notes table: note id -> row
    attachments,\* the attachments table: attachment id -> row
    held,       \* the access token the client stored at its last login
    resp,       \* the last request handled and the response to it
    tags,       \* the tags table: tag id -> row
    categories, \* the categories table: category id -> row
    noteTags,   \* the note_tags table: the set of its (note id, tag id) rows
    noteCols,   \* the title, category_id and tag_ids columns of the notes rows
    driver,     \* the database driver of the profile
    listing,    \* the body of the last list response
    regs,       \* the RegisterUser calls that run side by side
    client      \* the web client: auth state, token storage, initialize calls

hdrVars == <<header, resolved>>
tokVars == <<token, issued, authed, header, resolved>>
srvVars == <<users, notes, attachments, held, resp>>
catVars == <<tags, categories, noteTags, noteCols, driver>>
extVars == <<catVars, listing, regs, client>>
vars ==
    <<now, token, issued, authed, header, resolved, users, notes, attachments, held, resp,
      tags, categories, noteTags, noteCols, driver, listing, regs, client>>

(***************************************************************************)
(* Token codec (server/auth/token.go, server/auth/authenticator.go).       *)
(* A token is the record of its header and claims plus the signature; the  *)
(* HMAC of a message under a key is the pair of both, so that it verifies  *)
(* exactly for the key and the message it was computed from.               *)
(***************************************************************************)
SigningInput(t) == [f \in DOMAIN t \ {"sig"} |-> t[f]]

\* SigningMethodHS256.Sign
Sign(secret, unsigned) == [key |-> secret, msg |-> unsigned]

\* token.SignedString(secret)
SignedString(unsigned, secret) ==
    [f \in DOMAIN unsigned \cup {"sig"} |->
        IF f = "sig" THEN Sign(secret, unsigned) ELSE unsigned[f]]

\* jwt.NewNumericDate: truncates to whole seconds.
NewNumericDate(t) == t \div TicksPerSecond

GenerateAccessTokenV2(userID, username, role, secret, t) ==
    LET expiresAt == t + AccessTokenDuration
        claims == [ malformed |-> FALSE,
                    alg       |-> SigningMethodHS256,
                    kid       |-> KeyID,
                    type      |-> "access",
                    role      |-> role,
                    username  |-> username,
                    iss       |-> Issuer,
                    aud       |-> {AccessTokenAudienceName},
                    sub       |-> FmtSprint(userID),
                    iat       |-> NewNumericDate(t),
                    hasExp    |-> TRUE,
                    exp       |-> NewNumericDate(expiresAt) ]
    IN  [token |-> SignedString(claims, secret), expiresAt |-> expiresAt]

\* The key function: signing method and key id.
verifyJWTKeyFunc(t) == t.alg = SigningMethodHS256 /\ t.kid = KeyID

\* HMAC verification of the signature segment under the key.
VerifySignature(t, secret) == t.sig = Sign(secret, SigningInput(t))

\* Mutant: a token is still accepted at the very instant it expires.
ValidateClaims_Inclusive(t, at) ==
    (IF t.hasExp /\ ~(at <= t.exp * TicksPerSecond) THEN {"Expired"} ELSE {})
    \cup (IF AccessTokenAudienceName \notin t.aud THEN {"BadAudience"} ELSE {})
    \cup (IF t.iss # Issuer THEN {"BadIssuer"} ELSE {})

\* The registered-claims validation of jwt.ParseWithClaims with the options
\* ParseAccessTokenV2 passes, WithIssuer and WithAudience: the set of
\* validation errors. The exp claim is checked when present (now must be
\* before it) and is not required (no WithExpirationRequired is passed);
\* iss must equal the issuer; aud must contain the audience.
ValidateClaims(t, at) ==
    (IF t.hasExp /\ ~(at < t.exp * TicksPerSecond) THEN {"Expired"} ELSE {})
    \cup (IF AccessTokenAudienceName \notin t.aud THEN {"BadAudience"} ELSE {})
    \cup (IF t.iss # Issuer THEN {"BadIssuer"} ELSE {})

ParseError(e) == [ok |-> FALSE, err |-> e]

ParseAccessTokenV2(t, secret, at) ==
    IF t.malformed THEN ParseError({"Malformed"})
    ELSE IF ~verifyJWTKeyFunc(t) THEN ParseError({"Unverifiable"})
    ELSE IF ~VerifySignature(t, secret) THEN ParseError({"BadSignature"})
    ELSE IF ValidateClaims(t, at) # {} THEN ParseError(ValidateClaims(t, at))
    ELSE IF t.type # "access" THEN ParseError({"WrongType"})
    ELSE [ok |-> TRUE, err |-> {}]

NoClaims == [UserID |-> 0, Username |-> "", Role |-> ""]

\* Mutant: a subject that is no int32 counts as user id 0.
AuthenticateByAccessTokenV2_AnySubject(t, secret, at) ==
    LET parsed == ParseAccessTokenV2(t, secret, at)
    IN  IF ~parsed.ok THEN [ok |-> FALSE, parsed |-> FALSE, err |-> parsed.err, claims |-> NoClaims]
        ELSE [ok |-> TRUE, parsed |-> TRUE, err |-> {},
              claims |-> [UserID |-> ConvertStringToInt32(t.sub).value,
                          Username |-> t.username, Role |-> t.role]]

\* Authenticator.AuthenticateByAccessTokenV2: the claims, or no claims.
AuthenticateByAccessTokenV2(t, secret, at) ==
    LET parsed == ParseAccessTokenV2(t, secret, at)
        userID == ConvertStringToInt32(t.sub)
    IN  IF ~parsed.ok THEN [ok |-> FALSE, parsed |-> FALSE, err |-> parsed.err, claims |-> NoClaims]
        ELSE IF ~userID.ok
        THEN [ok |-> FALSE, parsed |-> TRUE, err |-> {"BadSubject"}, claims |-> NoClaims]
        ELSE [ok |-> TRUE, parsed |-> TRUE, err |-> {},
              claims |-> [UserID |-> userID.value, Username |-> t.username, Role |-> t.role]]

(***************************************************************************)
(* The token codec as a state machine: a token is generated, possibly      *)
(* altered (by someone without the key) or re-signed (by someone holding a *)
(* key), and presented to AuthenticateByAccessTokenV2 at some later time.  *)
(***************************************************************************)
\* The identities tokens are generated for: (user id, username, role).
TokIdentities ==
    { <<MinInt32, "alice", "USER_ROLE_USER">>,
      <<-7, "", "USER_ROLE_HOST">>,
      <<42, "alice", "USER_ROLE_HOST">>,
      <<MaxInt32, "bob", "USER_ROLE_ADMIN">> }
Secrets == {"simple-notes-secret-key-change-in-production", "other-secret"}

\* The clock runs through an early window of MaxExtraSeconds, jumps by one
\* second less than the token lifetime, and runs on to MaxNow.
EarlyWindow == MaxExtraSeconds * TicksPerSecond
MaxNow == AccessTokenDuration + 2 * EarlyWindow

\* A string that is no three-segment JWT.
GarbageToken ==
    [ malformed |-> TRUE, alg |-> "", kid |-> "", type |-> "", role |-> "",
      username |-> "", iss |-> "", aud |-> {}, sub |-> <<>>, iat |-> 0,
      hasExp |-> FALSE, exp |-> 0, sig |-> [key |-> "", msg |-> <<>>] ]

NoIssue ==
    [ done |-> FALSE, userID |-> 0, username |-> "", role |-> "", secret |-> "",
      at |-> 0, expiresAt |-> 0, token |-> GarbageToken ]

NoAuth ==
    [ done |-> FALSE, ok |-> FALSE, parsed |-> FALSE, err |-> {}, claims |-> NoClaims,
      secret |-> "", at |-> 0 ]

\* No header has been resolved.
NoResolve ==
    [ done |-> FALSE, token |-> <<>>, auth |-> [present |-> FALSE, Claims |-> NoClaims],
      at |-> 0 ]

\* The alterations of a token's header, claims or signature.
Alterations(t) ==
    { [t EXCEPT !.alg = "none"],
      [t EXCEPT !.alg = "HS384"],
      [t EXCEPT !.kid = "v2"],
      [t EXCEPT !.type = "refresh"],
      [t EXCEPT !.role = "USER_ROLE_ADMIN"],
      [t EXCEPT !.username = "mallory"],
      [t EXCEPT !.iss = "someone-else"],
      [t EXCEPT !.aud = {}],
      [t EXCEPT !.aud = {"user.refresh-token"}],
      [t EXCEPT !.aud = {AccessTokenAudienceName, "user.refresh-token"}],
      [t EXCEPT !.sub = <<"x">>],
      [t EXCEPT !.sub = <<"2", "1", "4", "7", "4", "8", "3", "6", "4", "8">>],
      [t EXCEPT !.hasExp = FALSE, !.exp = 0],
      [t EXCEPT !.exp = t.exp + AccessTokenDurationSeconds],
      [t EXCEPT !.sig = [key |-> "forged", msg |-> t.sig.msg]],
      GarbageToken }

TokInit ==
    /\ now = 0
    /\ token = GarbageToken
    /\ issued = NoIssue
    /\ authed = NoAuth
    /\ header = <<>>
    /\ resolved = NoResolve

TokGenerate ==
    /\ ~issued.done
    /\ \E id \in TokIdentities, secret \in Secrets :
        LET g == GenerateAccessTokenV2(id[1], id[2], id[3], secret, now)
        IN  /\ token' = g.token
            /\ issued' = [ done |-> TRUE, userID |-> id[1], username |-> id[2],
                           role |-> id[3], secret |-> secret, at |-> now,
                           expiresAt |-> g.expiresAt, token |-> g.token ]
    /\ authed' = NoAuth
    /\ UNCHANGED now

\* Someone alters the generated token without re-signing it.
TokAlter ==
    /\ issued.done
    /\ token = issued.token
    /\ \E t \in Alterations(token) : token' = t
    /\ authed' = NoAuth
    /\ UNCHANGED <<now, issued>>

\* The holder of a key signs the token's header and claims afresh.
TokResign ==
    /\ issued.done
    /\ ~token.malformed
    /\ \E secret \in Secrets :
        /\ token' = SignedString(SigningInput(token), secret)
        /\ token' # token
    /\ authed' = NoAuth
    /\ UNCHANGED <<now, issued>>

TokAuthenticate ==
    /\ issued.done
    /\ \E secret \in Secrets :
        LET r == AuthenticateByAccessTokenV2(token, secret, now)
        IN  authed' = [ done |-> TRUE, ok |-> r.ok, parsed |-> r.parsed, err |-> r.err,
                        claims |-> r.claims, secret |-> secret, at |-> now ]
    /\ UNCHANGED <<now, token, issued>>

\* Time passes: by one tick inside a window, or from the early window by
\* one second less than the token lifetime.
TokAdvance ==
    /\ \/ /\ now < EarlyWindow \/ (now >= AccessTokenDuration - TicksPerSecond /\ now < MaxNow)
          /\ now' = now + 1
       \/ /\ now <= EarlyWindow
          /\ now' = now + AccessTokenDuration - TicksPerSecond
    /\ authed' = NoAuth
    /\ UNCHANGED <<token, issued>>

(***************************************************************************)
(* The store (store/user.go, store/tag.go, store/attachment.go). A table   *)
(* is the sequence of its rows in id order: ids are AUTOINCREMENT, so the  *)
(* id of a row is its position and is never given out again.  Users and    *)
(* attachments are soft-deleted (deleted_at); a deleted note leaves its    *)
(* position behind as a row that no longer exists.                         *)
(***************************************************************************)
RoleHost == "HOST"
RoleAdmin == "ADMIN"
RoleUser == "USER"

VisibilityPublic == "PUBLIC"
VisibilityPrivate == "PRIVATE"

\* A *store.User that is nil.
NilUser == [present |-> FALSE, ID |-> 0, Username |-> "", Role |-> None]

\* bcrypt: a hash matches exactly the password it was computed from.
HashPassword(password) == <<"bcrypt", password>>
CheckPassword(password, hash) == hash = HashPassword(password)

\* Store.GetUserByID: WHERE id = ? AND deleted_at IS NULL.
GetUserByID(id) ==
    IF id \in 1..Len(users) /\ ~users[id].deleted
    THEN [present |-> TRUE, ID |-> id, Username |-> users[id].username,
          Role |-> users[id].role]
    ELSE NilUser

\* Store.GetUserByUsername: WHERE username = ? AND deleted_at IS NULL.
GetUserByUsername(username) ==
    LET ids == {i \in 1..Len(users) : users[i].username = username /\ ~users[i].deleted}
    IN  IF ids = {} THEN NilUser ELSE GetUserByID(CHOOSE i \in ids : TRUE)

\* Store.CountUsers: the rows that are not deleted.
CountUsers == Cardinality({i \in 1..Len(users) : ~users[i].deleted})

\* Mutant: only the rows that are not deleted are looked at.
CreateUser_LiveRowsOnly(username, passwordHash, role) ==
    IF \E i \in 1..Len(users) : users[i].username = username /\ ~users[i].deleted
    THEN [ok |-> FALSE, users |-> users]
    ELSE [ok |-> TRUE,
          users |-> Append(users, [username |-> username, passwordHash |-> passwordHash,
                                   role |-> role, deleted |-> FALSE, deletedAt |-> 0])]

\* Store.CreateUser: refused when any row, deleted or not, has the username.
CreateUser(username, passwordHash, role) ==
    IF \E i \in 1..Len(users) : users[i].username = username
    THEN [ok |-> FALSE, users |-> users]
    ELSE [ok |-> TRUE,
          users |-> Append(users, [username |-> username, passwordHash |-> passwordHash,
                                   role |-> role, deleted |-> FALSE, deletedAt |-> 0])]

\* Store.UpdateUser: the UPDATE touches the row of the id that is not
\* deleted and fails on the UNIQUE constraint of users.username.
StoreUpdateUser(id, username, role) ==
    IF ~(id \in 1..Len(users) /\ ~users[id].deleted)
    THEN [ok |-> TRUE, users |-> users]
    ELSE IF \E i \in 1..Len(users) : i # id /\ users[i].username = username
    THEN [ok |-> FALSE, users |-> users]
    ELSE [ok |-> TRUE,
          users |-> [users EXCEPT ![id].username = username, ![id].role = role]]

\* Mutant: deleted_at is set again on a row that is deleted already.
StoreDeleteUser_Again(id) ==
    IF id \in 1..Len(users)
    THEN [users EXCEPT ![id].deleted = TRUE, ![id].deletedAt = now]
    ELSE users

\* Store.DeleteUser: UPDATE users SET deleted_at = CURRENT_TIMESTAMP WHERE
\* id = ? AND deleted_at IS NULL.  A row is deleted when its deleted_at is
\* not NULL; deletedAt is that time.
StoreDeleteUser(id) ==
    IF id \in 1..Len(users) /\ ~users[id].deleted
    THEN [users EXCEPT ![id].deleted = TRUE, ![id].deletedAt = now]
    ELSE users

(***************************************************************************)
(* Request authentication (server/auth, the Connect interceptor, the      *)
(* gRPC-Gateway registration).  An Authorization header is a string: the  *)
(* sequence of its characters.  A character is a record: c is the         *)
(* character; a compact JWT, which holds no white space, stands in the    *)
(* string as one element with c = "JWT" and the token as t.               *)
(***************************************************************************)
Char(c) == [c |-> c, t |-> GarbageToken]
JWT(t) == [c |-> "JWT", t |-> t]

\* The string of a sequence of characters.
Str(cs) == [k \in 1..Len(cs) |-> Char(cs[k])]

\* unicode.IsSpace: the white space of Latin-1 (and U+2003 of the others).
WhiteSpace == {" ", "\t", "\n", "U+000B", "\f", "\r", "U+0085", "U+00A0", "U+2003"}
IsSpace(r) == r.c \in WhiteSpace

RECURSIVE Fields(_)
\* strings.Fields: the maximal runs of characters that are not white space.
Fields(s) ==
    IF s = <<>> THEN <<>>
    ELSE IF IsSpace(Head(s)) THEN Fields(Tail(s))
    ELSE LET spaces == {k \in 1..Len(s) : IsSpace(s[k])}
             end == IF spaces = {} THEN Len(s) + 1
                    ELSE CHOOSE k \in spaces : \A m \in spaces : k <= m
         IN  <<SubSeq(s, 1, end - 1)>> \o Fields(SubSeq(s, end, Len(s)))

\* The string a token is presented as, and the token a string is: a string
\* that is not one compact JWT parses as no token.
TokenString(t) == <<JWT(t)>>
TokenOf(s) == IF Len(s) = 1 /\ s[1].c = "JWT" THEN s[1].t ELSE GarbageToken
\* The SECRET the server signs and verifies with (the default of main).
ServerSecret == "simple-notes-secret-key-change-in-production"

\* Mutant: letters are compared as they are.
ToLower_Exact(r) == r

\* The case folding of strings.EqualFold on the letters of a scheme word.
ToLower(r) ==
    CASE r.c = "B" -> Char("b")
      [] r.c = "E" -> Char("e")
      [] r.c = "A" -> Char("a")
      [] r.c = "R" -> Char("r")
      [] r.c = "S" -> Char("s")
      [] OTHER -> r

\* strings.EqualFold.
EqualFold(s, t) ==
    /\ Len(s) = Len(t)
    /\ \A k \in 1..Len(s) : ToLower(s[k]) = ToLower(t[k])

\* The scheme word ExtractBearerToken looks for.
BearerWord == Str(<<"b", "e", "a", "r", "e", "r">>)

\* auth.ExtractBearerToken: the second of exactly two fields when the first
\* is "bearer" in any case, else "".
ExtractBearerToken(authHeader) ==
    LET parts == Fields(authHeader)
    IN  IF authHeader = <<>> THEN <<>>
        ELSE IF Len(parts) # 2 \/ ~EqualFold(parts[1], BearerWord)
        THEN <<>>
        ELSE parts[2]

\* An *AuthResult that is nil.
NilAuthResult == [present |-> FALSE, Claims |-> NoClaims]

\* Authenticator.Authenticate: the claims of a valid bearer token, or nil.
Authenticate(authHeader, at) ==
    LET tokenString == ExtractBearerToken(authHeader)
        r == AuthenticateByAccessTokenV2(TokenOf(tokenString), ServerSecret, at)
    IN  IF tokenString # <<>> /\ r.ok THEN [present |-> TRUE, Claims |-> r.claims]
        ELSE NilAuthResult

PublicMethods ==
    { "/api.v1.UserService/RegisterUser",
      "/api.v1.UserService/LoginUser",
      "/api.v1.NoteService/ListNotes",
      "/api.v1.NoteService/GetNote",
      "/api.v1.CategoryService/ListCategories",
      "/api.v1.CategoryService/GetCategory",
      "/api.v1.CategoryService/GetCategoryBySlug",
      "/api.v1.TagService/ListTags",
      "/api.v1.TagService/GetTag",
      "/api.v1.TagService/GetTagBySlug",
      "/api.v1.AttachmentService/ListAttachments" }

IsPublicMethod(procedure) == procedure \in PublicMethods

\* AuthInterceptor.WrapUnary: the request is refused when it authenticates
\* as nobody and the procedure is not public; otherwise the handler runs
\* with the claims (if any) in its context.
WrapUnary(authHeader, procedure, at) ==
    LET result == Authenticate(authHeader, at)
    IN  [rejected |-> ~result.present /\ ~IsPublicMethod(procedure), auth |-> result]

\* The paths a request reaches a handler of APIV1Service on.
ConnectPath == "connect"
GatewayPath == "gateway"
FilePath == "file"
APIPaths == {ConnectPath, GatewayPath}

\* RegisterGateway: the Connect handlers are built with the auth interceptor;
\* the /api/v1 gateway mux calls the service directly and puts no claims in
\* the context.
Dispatch(path, authHeader, procedure, at) ==
    IF path = ConnectPath THEN WrapUnary(authHeader, procedure, at)
    ELSE [rejected |-> FALSE, auth |-> NilAuthResult]

\* uint(claims.UserID): a negative int32 converts to a number beyond any id.
UintOfInt32(i) == IF i < 0 THEN 0 ELSE i

\* APIV1Service.fetchCurrentUser: nil without claims, else the stored user.
fetchCurrentUser(auth) ==
    IF ~auth.present THEN NilUser ELSE GetUserByID(UintOfInt32(auth.Claims.UserID))

(***************************************************************************)
(* Responses.  A handler returns a status: a gRPC code, or Unknown for a   *)
(* plain Go error, with its message.  resp records the last request: the   *)
(* procedure, the path it came in on, whether its header authenticated and *)
(* the claims of its token, whether the handler ran, the current user the  *)
(* handler resolves, the                                                   *)
(* author and visibility of the resource it addressed, and the status.     *)
(* The client sends one request at a time: resp is NoResp while none is in *)
(* flight.                                                                 *)
(***************************************************************************)
CodeOK == "OK"
CodeUnknown == "Unknown"
CodeUnauthenticated == "Unauthenticated"
CodePermissionDenied == "PermissionDenied"
CodeNotFound == "NotFound"
CodeInvalidArgument == "InvalidArgument"
CodeInternal == "Internal"

Status(code, msg) == [code |-> code, msg |-> msg]
StatusOK == Status(CodeOK, "")

\* The resource a request addressed, as it was when the request came in: a
\* note (author, visibility), an attachment (author, whether it is linked,
\* author and visibility of the note it is linked to) or a user (author is
\* the user id, name the username of the payload, password the password of
\* a login); found is FALSE when there was no such note or attachment.
NoSubject ==
    [ found |-> FALSE, author |-> 0, visibility |-> None, linked |-> FALSE, noteAuthor |-> 0,
      name |-> "", password |-> "" ]

NoResp ==
    [ op |-> None, path |-> None, authenticated |-> FALSE, claims |-> NoClaims,
      ran |-> FALSE, uid |-> 0, role |-> None, subject |-> NoSubject, status |-> StatusOK ]

\* The record of a request that came in on an API path.
APIResponse(procedure, path, authHeader, d, status, subject) ==
    LET result == Authenticate(authHeader, now)
        currentUser == fetchCurrentUser(d.auth)
    IN  [ op |-> procedure, path |-> path,
          authenticated |-> result.present,
          claims |-> result.Claims,
          ran |-> ~d.rejected,
          uid |-> currentUser.ID,
          role |-> currentUser.Role,
          subject |-> subject,
          status |-> status ]

\* No list response: the request it answers, the notes or attachments of
\* the page, the total and the number of pages.
NoListing == [req |-> <<>>, notes |-> <<>>, total |-> 0, totalPages |-> 0, attachments |-> <<>>]
NoRegs == <<>>
\* The web client when the page has loaded: the AuthProvider state as
\* useState makes it, no token in memory or in sessionStorage ("" for null
\* and for undefined, 0 for no expiry), no initialize call under way, and
\* no logout so far.
NoClient ==
    [ currentUser |-> "", isInitialized |-> FALSE, isLoading |-> TRUE,
      accessToken |-> "", tokenExpiresAt |-> 0,
      sessionToken |-> "", sessionExpires |-> 0,
      calls |-> <<[pc |-> "idle", sent |-> ""], [pc |-> "idle", sent |-> ""]>>,
      loggedOut |-> FALSE ]

\* The error of AuthInterceptor.WrapUnary.
InterceptorError == Status(CodeUnauthenticated, "authentication required")

(***************************************************************************)
(* User service (service.UserService) and its handlers (APIV1Service).     *)
(***************************************************************************)
\* The usernames and passwords people type.  ValidateUserRegistrationRequest
\* accepts a username of 3 to 50 characters of [a-zA-Z0-9_-] and a password
\* of at least 6 characters.
Usernames == {"alice", "bob"}
InvalidUsername == "a!"
GoodPassword == "hunter22"
OtherPassword == "letmein1"
ShortPassword == "abc"

ValidateUserRegistrationRequest(username, password) ==
    /\ username \in Usernames
    /\ password \in {GoodPassword, OtherPassword}

\* UserService.RegisterUser: the first user (no row that is not deleted)
\* becomes HOST, every other one USER.
UserService_RegisterUser(username, password) ==
    IF ~ValidateUserRegistrationRequest(username, password)
    THEN [ok |-> FALSE, users |-> users]
    ELSE CreateUser(username, HashPassword(password),
                    IF CountUsers = 0 THEN RoleHost ELSE RoleUser)

\* Mutant: the password is not compared with the stored hash.
UserService_LoginUser_AnyPassword(username, password) ==
    LET user == GetUserByUsername(username)
    IN  IF username = "" \/ password = "" THEN NilUser
        ELSE IF ~user.present THEN NilUser
        ELSE user

\* UserService.LoginUser: the user, or nil for a wrong name or password.
UserService_LoginUser(username, password) ==
    LET user == GetUserByUsername(username)
    IN  IF username = "" \/ password = "" THEN NilUser
        ELSE IF ~user.present THEN NilUser
        ELSE IF ~CheckPassword(password, users[user.ID].passwordHash) THEN NilUser
        ELSE user

convertUserRoleToProto(role) ==
    CASE role = RoleHost -> "USER_ROLE_HOST"
      [] role = RoleAdmin -> "USER_ROLE_ADMIN"
      [] role = RoleUser -> "USER_ROLE_USER"
      [] OTHER -> "USER_ROLE_UNSPECIFIED"

convertUserRoleFromProto(role) ==
    CASE role = "USER_ROLE_HOST" -> RoleHost
      [] role = "USER_ROLE_ADMIN" -> RoleAdmin
      [] role = "USER_ROLE_USER" -> RoleUser
      [] OTHER -> RoleUser

ProtoRoles == {"USER_ROLE_UNSPECIFIED", "USER_ROLE_USER", "USER_ROLE_ADMIN", "USER_ROLE_HOST"}

\* APIV1Service.RegisterUser.
APIV1Service_RegisterUser(username, password) ==
    LET r == UserService_RegisterUser(username, password)
    IN  IF password = "" THEN [status |-> Status(CodeInvalidArgument, "password is required"),
                               users |-> users]
        ELSE IF ~r.ok THEN [status |-> Status(CodeInternal, "failed to register user"),
                            users |-> users]
        ELSE [status |-> StatusOK, users |-> r.users]

\* APIV1Service.LoginUser: the token of the response, generated for the
\* stored id, username and role.
APIV1Service_LoginUser(username, password) ==
    LET user == UserService_LoginUser(username, password)
    IN  IF username = "" \/ password = ""
        THEN [status |-> Status(CodeInvalidArgument, "username and password are required"),
              token |-> GarbageToken]
        ELSE IF ~user.present
        THEN [status |-> Status(CodeUnauthenticated, "wrong username or password"),
              token |-> GarbageToken]
        ELSE [status |-> StatusOK,
              token |-> GenerateAccessTokenV2(user.ID, user.Username,
                            convertUserRoleToProto(user.Role), ServerSecret, now).token]

\* APIV1Service.UpdateUser: no check of the caller; a non-empty username and
\* a specified role of the payload are written to the row.
APIV1Service_UpdateUser(userID, username, role) ==
    LET currentUser == GetUserByID(userID)
        r == StoreUpdateUser(userID,
                 IF username # "" THEN username ELSE currentUser.Username,
                 IF role # "USER_ROLE_UNSPECIFIED" THEN convertUserRoleFromProto(role)
                 ELSE currentUser.Role)
    IN  IF ~currentUser.present
        THEN [status |-> Status(CodeNotFound, "user not found"), users |-> users]
        ELSE IF ~r.ok
        THEN [status |-> Status(CodeInternal, "failed to update user"), users |-> users]
        ELSE [status |-> StatusOK, users |-> r.users]

\* APIV1Service.DeleteUser: no check of the caller.
APIV1Service_DeleteUser(userID) ==
    [status |-> StatusOK, users |-> StoreDeleteUser(userID)]

\* The Authorization headers a client sends: none, the token it holds as a
\* bearer token, or a bearer token that is no JWT.
\* "Bearer " and the token, as the web client writes the header.
BearerPrefix == Str(<<"B", "e", "a", "r", "e", "r", " ">>)
BearerHeader(t) == BearerPrefix \o TokenString(t)
Headers == { <<>>, BearerHeader(held), BearerHeader(GarbageToken) }

\* The user ids a request names: every row and one id beyond.
UserIDs == 1..(Len(users) + 1)

RegisterUserRequest(path, authHeader, username, password) ==
    LET procedure == "/api.v1.UserService/RegisterUser"
        d == Dispatch(path, authHeader, procedure, now)
        h == IF d.rejected THEN [status |-> InterceptorError, users |-> users]
             ELSE APIV1Service_RegisterUser(username, password)
    IN  /\ resp = NoResp
        /\ users' = h.users
        /\ resp' = APIResponse(procedure, path, authHeader, d, h.status,
                               [NoSubject EXCEPT !.name = username])
        /\ UNCHANGED <<now, notes, attachments, held>>

\* A successful login leaves the client holding the token of the response.
LoginUserRequest(path, authHeader, username, password) ==
    LET procedure == "/api.v1.UserService/LoginUser"
        d == Dispatch(path, authHeader, procedure, now)
        h == IF d.rejected THEN [status |-> InterceptorError, token |-> GarbageToken]
             ELSE APIV1Service_LoginUser(username, password)
    IN  /\ resp = NoResp
        /\ held' = IF h.status.code = CodeOK THEN h.token ELSE held
        /\ resp' = APIResponse(procedure, path, authHeader, d, h.status,
                               [NoSubject EXCEPT !.name = username, !.password = password])
        /\ UNCHANGED <<now, users, notes, attachments>>

UpdateUserRequest(path, authHeader, userID, username, role) ==
    LET procedure == "/api.v1.UserService/UpdateUser"
        d == Dispatch(path, authHeader, procedure, now)
        h == IF d.rejected THEN [status |-> InterceptorError, users |-> users]
             ELSE APIV1Service_UpdateUser(userID, username, role)
    IN  /\ resp = NoResp
        /\ users' = h.users
        /\ resp' = APIResponse(procedure, path, authHeader, d, h.status,
                               [NoSubject EXCEPT !.author = userID, !.name = username])
        /\ UNCHANGED <<now, notes, attachments, held>>

DeleteUserRequest(path, authHeader, userID) ==
    LET procedure == "/api.v1.UserService/DeleteUser"
        d == Dispatch(path, authHeader, procedure, now)
        h == IF d.rejected THEN [status |-> InterceptorError, users |-> users]
             ELSE APIV1Service_DeleteUser(userID)
    IN  /\ resp = NoResp
        /\ users' = h.users
        /\ resp' = APIResponse(procedure, path, authHeader, d, h.status,
                               [NoSubject EXCEPT !.author = userID])
        /\ UNCHANGED <<now, notes, attachments, held>>

(***************************************************************************)
(* Note service: the store (store/tag.go) and the handlers (APIV1Service). *)
(***************************************************************************)
NOTE_VISIBILITY_UNSPECIFIED == "NOTE_VISIBILITY_UNSPECIFIED"
NOTE_VISIBILITY_PUBLIC == "NOTE_VISIBILITY_PUBLIC"
NOTE_VISIBILITY_PRIVATE == "NOTE_VISIBILITY_PRIVATE"
ProtoVisibilities ==
    {NOTE_VISIBILITY_UNSPECIFIED, NOTE_VISIBILITY_PUBLIC, NOTE_VISIBILITY_PRIVATE}

\* The visibility column written for a payload: PRIVATE only for PRIVATE.
VisibilityColumn(visibility) ==
    IF visibility = NOTE_VISIBILITY_PRIVATE THEN VisibilityPrivate ELSE VisibilityPublic

\* scanNote: the visibility read back from the column.
ScanVisibility(column) ==
    IF column = VisibilityPrivate THEN NOTE_VISIBILITY_PRIVATE ELSE NOTE_VISIBILITY_PUBLIC

NoteExists(id) == id \in 1..Len(notes) /\ notes[id].exists

\* time.Time.Unix of a time in ticks, and time.Unix of a time in seconds.
Unix(t) == t \div TicksPerSecond
TimeOfUnix(sec) == sec * TicksPerSecond

\* Store.GetNote: SELECT * FROM notes WHERE id = ?, or "note not found".
StoreGetNote(id) ==
    IF NoteExists(id)
    THEN [found |-> TRUE, Id |-> id, AuthorId |-> notes[id].author,
          Visibility |-> ScanVisibility(notes[id].visibility),
          Published |-> notes[id].published,
          PublishedAt |-> Unix(notes[id].publishedAt)]
    ELSE [found |-> FALSE, Id |-> 0, AuthorId |-> 0, Visibility |-> NOTE_VISIBILITY_UNSPECIFIED,
          Published |-> FALSE, PublishedAt |-> 0]

\* The published_at column written for a payload: the PublishedAt of the
\* payload when it is positive, else time.Now().
PublishedAtColumn(publishedAt) ==
    IF publishedAt > 0 THEN TimeOfUnix(publishedAt) ELSE now

\* Store.CreateNote: INSERT with the author, visibility, published flag and
\* published_at of the payload.
StoreCreateNote(authorID, visibility, published, publishedAt) ==
    Append(notes, [exists |-> TRUE, author |-> authorID,
                   visibility |-> VisibilityColumn(visibility),
                   published |-> published,
                   publishedAt |-> PublishedAtColumn(publishedAt)])

\* Store.UpdateNote: the UPDATE writes the author_id, visibility, published
\* flag and published_at of the payload over the row.
StoreUpdateNote(id, authorID, visibility, published, publishedAt) ==
    [notes EXCEPT ![id] = [exists |-> TRUE, author |-> authorID,
                           visibility |-> VisibilityColumn(visibility),
                           published |-> published,
                           publishedAt |-> PublishedAtColumn(publishedAt)]]

\* Store.DeleteNote: DELETE FROM notes WHERE id = ?.
StoreDeleteNote(id) ==
    [notes EXCEPT ![id] = [exists |-> FALSE, author |-> 0, visibility |-> VisibilityPublic,
                           published |-> FALSE, publishedAt |-> 0]]

NoteSubject(note) ==
    IF note.found
    THEN [NoSubject EXCEPT !.found = TRUE, !.author = note.AuthorId,
                           !.visibility = note.Visibility]
    ELSE NoSubject

\* Mutant: a private note is visible to every user that is not nil.
isNoteVisibleToUser_AnyUser(note, user) ==
    IF note.Visibility = NOTE_VISIBILITY_PUBLIC THEN TRUE
    ELSE user.present

\* APIV1Service.isNoteVisibleToUser.
isNoteVisibleToUser(note, user) ==
    IF note.Visibility = NOTE_VISIBILITY_PUBLIC THEN TRUE
    ELSE IF ~user.present THEN FALSE
    ELSE IF user.ID = note.AuthorId THEN TRUE
    ELSE user.Role = RoleAdmin \/ user.Role = RoleHost

\* Mutant: the role of the current user is not consulted.
noteMutationDenied_AnyRole(currentUser, existingNote) ==
    currentUser.ID # existingNote.AuthorId /\ currentUser.Role = None

\* The permission check of UpdateNote and DeleteNote: refused when the
\* current user is neither the author nor ADMIN nor HOST.
noteMutationDenied(currentUser, existingNote) ==
    /\ currentUser.ID # existingNote.AuthorId
    /\ currentUser.Role # RoleAdmin
    /\ currentUser.Role # RoleHost

\* APIV1Service.GetNote.
APIV1Service_GetNote(currentUser, noteID) ==
    LET note == StoreGetNote(noteID)
    IN  IF ~note.found THEN Status(CodeUnknown, "failed to get note: note not found")
        ELSE IF ~isNoteVisibleToUser(note, currentUser)
        THEN Status(CodeUnknown, "no permission to access this note")
        ELSE StatusOK

\* APIV1Service.CreateNote: complete says that the payload has a title, a
\* summary and a content.  The author is the current user; a note created
\* as published gets the current time as its PublishedAt.
APIV1Service_CreateNote(currentUser, complete, visibility, published, publishedAt) ==
    IF ~currentUser.present
    THEN [status |-> Status(CodeUnknown, "authentication required"), notes |-> notes]
    ELSE IF ~complete
    THEN [status |-> Status(CodeUnknown, "title, summary and content must not be empty"),
          notes |-> notes]
    ELSE [status |-> StatusOK,
          notes |-> StoreCreateNote(currentUser.ID, visibility, published,
                                    IF published THEN Unix(now) ELSE publishedAt)]

\* APIV1Service.UpdateNote: the payload goes to the store as it came, but
\* for its PublishedAt when the update publishes a note that was not.
APIV1Service_UpdateNote(currentUser, noteID, complete, authorID, visibility, published, publishedAt) ==
    LET existingNote == StoreGetNote(noteID)
    IN  IF ~currentUser.present
        THEN [status |-> Status(CodeUnauthenticated, "authentication required"), notes |-> notes]
        ELSE IF ~existingNote.found
        THEN [status |-> Status(CodeUnknown, "failed to get note: note not found"),
              notes |-> notes]
        ELSE IF noteMutationDenied(currentUser, existingNote)
        THEN [status |-> Status(CodePermissionDenied, "permission denied"), notes |-> notes]
        ELSE IF ~complete
        THEN [status |-> Status(CodeUnknown, "title, summary and content must not be empty"),
              notes |-> notes]
        ELSE [status |-> StatusOK,
              notes |-> StoreUpdateNote(noteID, authorID, visibility, published,
                            IF ~existingNote.Published /\ published THEN Unix(now)
                            ELSE publishedAt)]

\* APIV1Service.DeleteNote.
APIV1Service_DeleteNote(currentUser, noteID) ==
    LET existingNote == StoreGetNote(noteID)
    IN  IF ~currentUser.present
        THEN [status |-> Status(CodeUnauthenticated, "authentication required"), notes |-> notes]
        ELSE IF ~existingNote.found
        THEN [status |-> Status(CodeUnknown, "failed to get note: note not found"),
              notes |-> notes]
        ELSE IF noteMutationDenied(currentUser, existingNote)
        THEN [status |-> Status(CodePermissionDenied, "permission denied"), notes |-> notes]
        ELSE [status |-> StatusOK, notes |-> StoreDeleteNote(noteID)]

\* The note ids a request names: every row and one id beyond.
NoteIDs == 1..(Len(notes) + 1)

GetNoteRequest(path, authHeader, noteID) ==
    LET procedure == "/api.v1.NoteService/GetNote"
        d == Dispatch(path, authHeader, procedure, now)
        status == IF d.rejected THEN InterceptorError
                  ELSE APIV1Service_GetNote(fetchCurrentUser(d.auth), noteID)
    IN  /\ resp = NoResp
        /\ resp' = APIResponse(procedure, path, authHeader, d, status,
                               NoteSubject(StoreGetNote(noteID)))
        /\ UNCHANGED <<now, users, notes, attachments, held>>

CreateNoteRequest(path, authHeader, complete, visibility, published, publishedAt) ==
    LET procedure == "/api.v1.NoteService/CreateNote"
        d == Dispatch(path, authHeader, procedure, now)
        h == IF d.rejected THEN [status |-> InterceptorError, notes |-> notes]
             ELSE APIV1Service_CreateNote(fetchCurrentUser(d.auth), complete, visibility,
                                          published, publishedAt)
    IN  /\ resp = NoResp
        /\ Len(notes) < MaxNotes
        /\ notes' = h.notes
        /\ resp' = APIResponse(procedure, path, authHeader, d, h.status, NoSubject)
        /\ UNCHANGED <<now, users, attachments, held>>

UpdateNoteRequest(path, authHeader, noteID, complete, authorID, visibility, published, publishedAt) ==
    LET procedure == "/api.v1.NoteService/UpdateNote"
        d == Dispatch(path, authHeader, procedure, now)
        h == IF d.rejected THEN [status |-> InterceptorError, notes |-> notes]
             ELSE APIV1Service_UpdateNote(fetchCurrentUser(d.auth), noteID, complete,
                                          authorID, visibility, published, publishedAt)
    IN  /\ resp = NoResp
        /\ notes' = h.notes
        /\ resp' = APIResponse(procedure, path, authHeader, d, h.status,
                               NoteSubject(StoreGetNote(noteID)))
        /\ UNCHANGED <<now, users, attachments, held>>

DeleteNoteRequest(path, authHeader, noteID) ==
    LET procedure == "/api.v1.NoteService/DeleteNote"
        d == Dispatch(path, authHeader, procedure, now)
        h == IF d.rejected THEN [status |-> InterceptorError, notes |-> notes]
             ELSE APIV1Service_DeleteNote(fetchCurrentUser(d.auth), noteID)
    IN  /\ resp = NoResp
        /\ notes' = h.notes
        /\ resp' = APIResponse(procedure, path, authHeader, d, h.status,
                               NoteSubject(StoreGetNote(noteID)))
        /\ UNCHANGED <<now, users, attachments, held>>

(***************************************************************************)
(* Attachment service: the store (store/attachment.go), the handlers       *)
(* (api/v1/attachment_service.go) and the file server                      *)
(* (fileserver/fileserver.go).  The note_id column is 0 for NULL.          *)
(***************************************************************************)
\* Store.GetAttachment: WHERE id = ? AND deleted_at IS NULL.  NoteId is ""
\* (here 0) for a NULL column, "notes/<id>" otherwise.
StoreGetAttachment(id) ==
    IF id \in 1..Len(attachments) /\ ~attachments[id].deleted
    THEN [found |-> TRUE, AuthorId |-> attachments[id].author,
          NoteId |-> attachments[id].noteId]
    ELSE [found |-> FALSE, AuthorId |-> 0, NoteId |-> 0]

\* Store.CreateAttachment: INSERT with the author and note of the payload.
StoreCreateAttachment(authorID, noteID) ==
    Append(attachments, [deleted |-> FALSE, author |-> authorID, noteId |-> noteID])

\* Store.UpdateAttachment: UPDATE attachments SET note_id = ?.
StoreUpdateAttachment(id, noteID) == [attachments EXCEPT ![id].noteId = noteID]

\* Store.DeleteAttachment: UPDATE attachments SET deleted_at = ?.
StoreDeleteAttachment(id) == [attachments EXCEPT ![id].deleted = TRUE]

\* The attachment a request addressed and the note it is linked to.
AttachmentSubject(attachment) ==
    LET note == StoreGetNote(attachment.NoteId)
    IN  IF ~attachment.found THEN NoSubject
        ELSE [ found |-> TRUE,
               author |-> attachment.AuthorId,
               linked |-> attachment.NoteId # 0,
               visibility |-> IF note.found THEN note.Visibility ELSE None,
               noteAuthor |-> note.AuthorId ]

\* APIV1Service.CreateAttachment: valid says that the payload has a filename,
\* a MIME type and a content the handler accepts.
APIV1Service_CreateAttachment(currentUser, valid, noteID) ==
    IF ~currentUser.present
    THEN [status |-> Status(CodeUnauthenticated, "authentication required"),
          attachments |-> attachments]
    ELSE IF ~valid
    THEN [status |-> Status(CodeInvalidArgument, "invalid attachment"),
          attachments |-> attachments]
    ELSE [status |-> StatusOK, attachments |-> StoreCreateAttachment(currentUser.ID, noteID)]

\* APIV1Service.GetAttachment: allowed when the linked note is visible to the
\* current user; otherwise allowed when the current user is the author of
\* the attachment or ADMIN or HOST.
APIV1Service_GetAttachment(currentUser, id) ==
    LET attachment == StoreGetAttachment(id)
        note == StoreGetNote(attachment.NoteId)
        byNote == attachment.NoteId # 0 /\ note.found /\ isNoteVisibleToUser(note, currentUser)
        byUser == /\ currentUser.present
                  /\ \/ currentUser.ID = attachment.AuthorId
                     \/ currentUser.Role = RoleAdmin
                     \/ currentUser.Role = RoleHost
    IN  IF ~attachment.found THEN Status(CodeNotFound, "attachment not found")
        ELSE IF byNote \/ byUser THEN StatusOK
        ELSE IF ~currentUser.present
        THEN Status(CodeUnauthenticated, "authentication required")
        ELSE Status(CodePermissionDenied, "permission denied")

\* APIV1Service.UpdateAttachment: only the author; the note_id of the payload
\* is written.
APIV1Service_UpdateAttachment(currentUser, id, noteID) ==
    LET existingAttachment == StoreGetAttachment(id)
    IN  IF ~currentUser.present
        THEN [status |-> Status(CodeUnauthenticated, "authentication required"),
              attachments |-> attachments]
        ELSE IF ~existingAttachment.found
        THEN [status |-> Status(CodeNotFound, "attachment not found"),
              attachments |-> attachments]
        ELSE IF currentUser.ID # existingAttachment.AuthorId
        THEN [status |-> Status(CodePermissionDenied, "permission denied"),
              attachments |-> attachments]
        ELSE [status |-> StatusOK, attachments |-> StoreUpdateAttachment(id, noteID)]

\* APIV1Service.DeleteAttachment: only the author.
APIV1Service_DeleteAttachment(currentUser, id) ==
    LET attachment == StoreGetAttachment(id)
    IN  IF ~currentUser.present
        THEN [status |-> Status(CodeUnauthenticated, "authentication required"),
              attachments |-> attachments]
        ELSE IF ~attachment.found
        THEN [status |-> Status(CodeNotFound, "attachment not found"),
              attachments |-> attachments]
        ELSE IF currentUser.ID # attachment.AuthorId
        THEN [status |-> Status(CodePermissionDenied, "permission denied"),
              attachments |-> attachments]
        ELSE [status |-> StatusOK, attachments |-> StoreDeleteAttachment(id)]

\* The HTTP statuses of the file server.
HTTPOK == "200"
HTTPUnauthorized == "401"
HTTPForbidden == "403"
HTTPNotFound == "404"

\* FileServerService.getCurrentUser: the stored user of a valid bearer token.
getCurrentUser(authHeader) ==
    LET result == Authenticate(authHeader, now)
    IN  IF authHeader # <<>> /\ ExtractBearerToken(authHeader) # <<>> /\ result.present
        THEN GetUserByID(UintOfInt32(result.Claims.UserID))
        ELSE NilUser

\* FileServerService.checkAttachmentPermission: an attachment without note
\* only for its author; one of a PUBLIC note for anyone; one of a PRIVATE
\* note only for the author of the note.
checkAttachmentPermission(authHeader, attachment) ==
    LET user == getCurrentUser(authHeader)
        note == StoreGetNote(attachment.NoteId)
    IN  IF attachment.NoteId = 0
        THEN IF ~user.present THEN Status(HTTPUnauthorized, "authentication required")
             ELSE IF user.ID # attachment.AuthorId THEN Status(HTTPForbidden, "forbidden access")
             ELSE Status(HTTPOK, "")
        ELSE IF ~note.found THEN Status(HTTPNotFound, "note not found")
        ELSE IF note.Visibility = NOTE_VISIBILITY_PUBLIC THEN Status(HTTPOK, "")
        ELSE IF ~user.present THEN Status(HTTPUnauthorized, "authentication required")
        ELSE IF note.Visibility = NOTE_VISIBILITY_PRIVATE /\ user.ID # note.AuthorId
        THEN Status(HTTPForbidden, "forbidden access")
        ELSE Status(HTTPOK, "")

\* FileServerService.serveAttachmentFile.
serveAttachmentFile(authHeader, attachmentID) ==
    LET attachment == StoreGetAttachment(attachmentID)
    IN  IF ~attachment.found THEN Status(HTTPNotFound, "attachment not found")
        ELSE checkAttachmentPermission(authHeader, attachment)

\* The attachment ids a request names: every row and one id beyond.
AttachmentIDs == 1..(Len(attachments) + 1)
\* The notes a payload links an attachment to: none (0), or a note id,
\* whether or not the note exists.
NoteLinks == 0..MaxNotes

CreateAttachmentRequest(path, authHeader, valid, noteID) ==
    LET procedure == "/api.v1.AttachmentService/CreateAttachment"
        d == Dispatch(path, authHeader, procedure, now)
        h == IF d.rejected THEN [status |-> InterceptorError, attachments |-> attachments]
             ELSE APIV1Service_CreateAttachment(fetchCurrentUser(d.auth), valid, noteID)
    IN  /\ resp = NoResp
        /\ Len(attachments) < MaxAttachments
        /\ attachments' = h.attachments
        /\ resp' = APIResponse(procedure, path, authHeader, d, h.status, NoSubject)
        /\ UNCHANGED <<now, users, notes, held>>

GetAttachmentRequest(path, authHeader, id) ==
    LET procedure == "/api.v1.AttachmentService/GetAttachment"
        d == Dispatch(path, authHeader, procedure, now)
        status == IF d.rejected THEN InterceptorError
                  ELSE APIV1Service_GetAttachment(fetchCurrentUser(d.auth), id)
    IN  /\ resp = NoResp
        /\ resp' = APIResponse(procedure, path, authHeader, d, status,
                               AttachmentSubject(StoreGetAttachment(id)))
        /\ UNCHANGED <<now, users, notes, attachments, held>>

UpdateAttachmentRequest(path, authHeader, id, noteID) ==
    LET procedure == "/api.v1.AttachmentService/UpdateAttachment"
        d == Dispatch(path, authHeader, procedure, now)
        h == IF d.rejected THEN [status |-> InterceptorError, attachments |-> attachments]
             ELSE APIV1Service_UpdateAttachment(fetchCurrentUser(d.auth), id, noteID)
    IN  /\ resp = NoResp
        /\ attachments' = h.attachments
        /\ resp' = APIResponse(procedure, path, authHeader, d, h.status,
                               AttachmentSubject(StoreGetAttachment(id)))
        /\ UNCHANGED <<now, users, notes, held>>

DeleteAttachmentRequest(path, authHeader, id) ==
    LET procedure == "/api.v1.AttachmentService/DeleteAttachment"
        d == Dispatch(path, authHeader, procedure, now)
        h == IF d.rejected THEN [status |-> InterceptorError, attachments |-> attachments]
             ELSE APIV1Service_DeleteAttachment(fetchCurrentUser(d.auth), id)
    IN  /\ resp = NoResp
        /\ attachments' = h.attachments
        /\ resp' = APIResponse(procedure, path, authHeader, d, h.status,
                               AttachmentSubject(StoreGetAttachment(id)))
        /\ UNCHANGED <<now, users, notes, held>>

\* GET /file/attachments/:id/:filename.
ServeFileRequest(authHeader, attachmentID) ==
    /\ resp = NoResp
    /\ resp' = [ op |-> "GET /file/attachments/:id/:filename", path |-> FilePath,
                 authenticated |-> Authenticate(authHeader, now).present,
                 claims |-> Authenticate(authHeader, now).Claims,
                 ran |-> TRUE,
                 uid |-> getCurrentUser(authHeader).ID,
                 role |-> getCurrentUser(authHeader).Role,
                 subject |-> AttachmentSubject(StoreGetAttachment(attachmentID)),
                 status |-> serveAttachmentFile(authHeader, attachmentID) ]
    /\ UNCHANGED <<now, users, notes, attachments, held>>

\* The client takes the response: no request is in flight any more.
ClientReceives ==
    /\ resp # NoResp
    /\ resp' = NoResp
    /\ UNCHANGED <<now, users, notes, attachments, held>>

\* A token lifetime passes.
TimePasses ==
    /\ resp = NoResp
    /\ now + AccessTokenDuration <= MaxNow
    /\ now' = now + AccessTokenDuration
    /\ UNCHANGED <<users, notes, attachments, held, resp>>

(***************************************************************************)
(* Specification of the token codec.                                       *)
(***************************************************************************)
\* The server after construction: migrations have run, every table is
\* empty, the client holds no token, no request has been handled.
SrvInit ==
    /\ users = <<>>
    /\ notes = <<>>
    /\ attachments = <<>>
    /\ held = GarbageToken
    /\ resp = NoResp

\* No tag, no category and no list response yet; no RegisterUser call and
\* no client activity under way; the database is SQLite.
ExtInit ==
    /\ tags = <<>>
    /\ categories = <<>>
    /\ noteTags = {}
    /\ noteCols = <<>>
    /\ driver = "sqlite"
    /\ listing = NoListing
    /\ regs = NoRegs
    /\ client = NoClient

InitToken == TokInit /\ SrvInit /\ ExtInit

NextToken ==
    \/ TokGenerate /\ UNCHANGED <<srvVars, hdrVars, extVars>>
    \/ TokAlter /\ UNCHANGED <<srvVars, hdrVars, extVars>>
    \/ TokResign /\ UNCHANGED <<srvVars, hdrVars, extVars>>
    \/ TokAuthenticate /\ UNCHANGED <<srvVars, hdrVars, extVars>>
    \/ TokAdvance /\ UNCHANGED <<srvVars, hdrVars, extVars>>

SpecToken == InitToken /\ [][NextToken]_vars

(***************************************************************************)
(* Specification of the note service: users register, log in, have their   *)
(* roles set and are deleted; requests to the note service come in on the  *)
(* Connect and on the gateway path with every header.  The token codec's   *)
(* own variables stay put, and so does the clock: no token expires.        *)
(***************************************************************************)
Init == TokInit /\ SrvInit /\ ExtInit

\* What people type when they register and log in: a valid pair, an
\* invalid username, a short password, no password; a right and a wrong
\* password, no username.
Registrations ==
    {<<u, GoodPassword>> : u \in Usernames}
        \cup {<<InvalidUsername, GoodPassword>>, <<"alice", ShortPassword>>, <<"alice", "">>}
Logins ==
    {<<u, GoodPassword>> : u \in Usernames}
        \cup {<<"alice", OtherPassword>>, <<"", GoodPassword>>, <<"alice", "">>}

\* The payloads of UpdateUser: a role, or a username (its own, a free one,
\* or one that another row, deleted or not, has taken).
UserUpdates(userID) ==
    {<<"", role>> : role \in ProtoRoles}
        \cup {<<u, "USER_ROLE_UNSPECIFIED">> : u \in Usernames}

\* The payloads of CreateNote and UpdateNote: incomplete, or complete with an
\* author id and a visibility; the notes are drafts (NotePublications has
\* the payloads that publish).
NoteCreations ==
    {<<FALSE, NOTE_VISIBILITY_PUBLIC>>}
        \cup {<<TRUE, visibility>> : visibility \in ProtoVisibilities}
NoteUpdates ==
    {<<FALSE, 0, NOTE_VISIBILITY_PUBLIC>>}
        \cup {<<TRUE, authorID, visibility>> :
                authorID \in 0..Len(users),
                visibility \in {NOTE_VISIBILITY_PUBLIC, NOTE_VISIBILITY_PRIVATE}}

RegisterAndLogin ==
    \E path \in APIPaths :
        \/ \E r \in Registrations : RegisterUserRequest(path, <<>>, r[1], r[2])
        \/ \E l \in Logins : LoginUserRequest(path, <<>>, l[1], l[2])

UserRequests ==
    \E path \in APIPaths, authHeader \in Headers :
        \/ \E userID \in UserIDs :
              \E u \in UserUpdates(userID) :
                UpdateUserRequest(path, authHeader, userID, u[1], u[2])
        \/ \E userID \in UserIDs :
                DeleteUserRequest(path, authHeader, userID)

NoteRequests ==
    \E path \in APIPaths, authHeader \in Headers :
        \/ \E noteID \in NoteIDs :
                GetNoteRequest(path, authHeader, noteID)
        \/ \E c \in NoteCreations :
                CreateNoteRequest(path, authHeader, c[1], c[2], FALSE, 0)
        \/ \E noteID \in NoteIDs, u \in NoteUpdates :
                UpdateNoteRequest(path, authHeader, noteID, u[1], u[2], u[3], FALSE, 0)
        \/ \E noteID \in NoteIDs :
                DeleteNoteRequest(path, authHeader, noteID)

\* The user service as the note and attachment specifications use it: roles
\* are set and users deleted through the gateway, which asks for no
\* credentials (UserRequests has the requests with every path and header).
RoleUpdates ==
    \E userID \in 1..Len(users), role \in {"USER_ROLE_USER", "USER_ROLE_ADMIN", "USER_ROLE_HOST"} :
        UpdateUserRequest(GatewayPath, <<>>, userID, "", role)

UserDeletions ==
    \E userID \in 1..Len(users) : DeleteUserRequest(GatewayPath, <<>>, userID)

Next ==
    \/ RegisterAndLogin /\ UNCHANGED <<tokVars, extVars>>
    \/ RoleUpdates /\ UNCHANGED <<tokVars, extVars>>
    \/ UserDeletions /\ UNCHANGED <<tokVars, extVars>>
    \/ NoteRequests /\ UNCHANGED <<tokVars, extVars>>
    \/ ClientReceives /\ UNCHANGED <<tokVars, extVars>>

Spec == Init /\ [][Next]_vars

(***************************************************************************)
(* Specification of the attachment paths: users register, log in and have  *)
(* their roles set; notes are created; attachments are created, linked,    *)
(* read over RPC and over the file server, and deleted.                    *)
(***************************************************************************)
NoteSetup ==
    \E authHeader \in Headers, visibility \in {NOTE_VISIBILITY_PUBLIC, NOTE_VISIBILITY_PRIVATE} :
        CreateNoteRequest(ConnectPath, authHeader, TRUE, visibility, FALSE, 0)

AttachmentRequests ==
    \E path \in APIPaths, authHeader \in Headers :
        \/ \E valid \in BOOLEAN, noteID \in NoteLinks :
                CreateAttachmentRequest(path, authHeader, valid, noteID)
        \/ \E id \in AttachmentIDs :
                GetAttachmentRequest(path, authHeader, id)
        \/ \E id \in AttachmentIDs, noteID \in NoteLinks :
                UpdateAttachmentRequest(path, authHeader, id, noteID)
        \/ \E id \in AttachmentIDs :
                DeleteAttachmentRequest(path, authHeader, id)

FileRequests ==
    \E authHeader \in Headers, id \in AttachmentIDs : ServeFileRequest(authHeader, id)

NextAttach ==
    \/ RegisterAndLogin /\ UNCHANGED <<tokVars, extVars>>
    \/ RoleUpdates /\ UNCHANGED <<tokVars, extVars>>
    \/ NoteSetup /\ UNCHANGED <<tokVars, extVars>>
    \/ AttachmentRequests /\ UNCHANGED <<tokVars, extVars>>
    \/ FileRequests /\ UNCHANGED <<tokVars, extVars>>
    \/ ClientReceives /\ UNCHANGED <<tokVars, extVars>>

SpecAttach == Init /\ [][NextAttach]_vars

(***************************************************************************)
(* Specification of the user service with the clock: users register, log   *)
(* in, are updated and deleted on both API paths, and a token lifetime may *)
(* pass, after which the token a client holds has expired.                 *)
(***************************************************************************)
NextUsers ==
    \/ RegisterAndLogin /\ UNCHANGED <<tokVars, extVars>>
    \/ UserRequests /\ UNCHANGED <<tokVars, extVars>>
    \/ ClientReceives /\ UNCHANGED <<tokVars, extVars>>
    \/ TimePasses /\ UNCHANGED <<tokVars, extVars>>

SpecUsers == Init /\ [][NextUsers]_vars

(***************************************************************************)
(* Specification of publishing: a user registers and logs in, creates      *)
(* notes as drafts or published and updates them with payloads that        *)
(* publish, unpublish and carry a PublishedAt, while seconds pass.         *)
(***************************************************************************)
\* The clock runs to this time, second by second.
PublishHorizon == (MaxExtraSeconds + 1) * TicksPerSecond

\* The PublishedAt of a payload: not set, a time of its own, or the one the
\* client read from the note.
PublishedAtInputs(noteID) == {0, 5, StoreGetNote(noteID).PublishedAt}

PublisherSetup ==
    \/ RegisterUserRequest(ConnectPath, <<>>, "alice", GoodPassword)
    \/ LoginUserRequest(ConnectPath, <<>>, "alice", GoodPassword)

NotePublications ==
    \E authHeader \in Headers, published \in BOOLEAN :
        \/ \E publishedAt \in {0, 5} :
                CreateNoteRequest(ConnectPath, authHeader, TRUE, NOTE_VISIBILITY_PUBLIC,
                                  published, publishedAt)
        \/ \E noteID \in NoteIDs :
              \E publishedAt \in PublishedAtInputs(noteID) :
                UpdateNoteRequest(ConnectPath, authHeader, noteID, TRUE,
                                  StoreGetNote(noteID).AuthorId, NOTE_VISIBILITY_PUBLIC,
                                  published, publishedAt)

SecondPasses ==
    /\ resp = NoResp
    /\ now < PublishHorizon
    /\ now' = now + TicksPerSecond
    /\ UNCHANGED <<users, notes, attachments, held, resp>>

NextPublish ==
    \/ PublisherSetup /\ UNCHANGED <<tokVars, extVars>>
    \/ NotePublications /\ UNCHANGED <<tokVars, extVars>>
    \/ ClientReceives /\ UNCHANGED <<tokVars, extVars>>
    \/ SecondPasses /\ UNCHANGED <<tokVars, extVars>>

SpecPublish == Init /\ [][NextPublish]_vars

(***************************************************************************)
(* Specification of the resolver: an Authorization header value arrives,   *)
(* Authenticate is applied to it, a token lifetime may pass.  The header   *)
(* values are put together from a lead, a scheme word, a separator, a      *)
(* token string and a trail.                                               *)
(***************************************************************************)
\* The tokens a header carries: tokens the server generated, their
\* alterations as they are and signed afresh with the server's secret or
\* with another one.
GeneratedTokens ==
    { GenerateAccessTokenV2(1, "alice", "USER_ROLE_HOST", ServerSecret, 0).token,
      GenerateAccessTokenV2(MinInt32, "bob", "USER_ROLE_USER", ServerSecret, 0).token }
AlteredTokens ==
    Alterations(GenerateAccessTokenV2(1, "alice", "USER_ROLE_HOST", ServerSecret, 0).token)
HeaderTokens ==
    GeneratedTokens
        \cup AlteredTokens
        \cup { SignedString(SigningInput(a), secret) :
                  a \in AlteredTokens \ {GarbageToken}, secret \in Secrets }

HeaderLeads == { <<>>, Str(<<" ">>) }
HeaderSchemes ==
    { <<>>,
      Str(<<"B", "e", "a", "r", "e", "r">>),
      Str(<<"b", "e", "a", "r", "e", "r">>),
      Str(<<"B", "E", "A", "R", "E", "R">>),
      Str(<<"b", "E", "a", "R", "e", "r">>),
      Str(<<"B", "e", "a", "r", "e", "r", ":">>),
      Str(<<"B", "e", "a", "r", "e", "r", "s">>),
      Str(<<"B", "e", "a", "r", "e">>),
      Str(<<"B", "a", "s", "i", "c">>) }
HeaderSeparators ==
    { <<>>, Str(<<" ">>), Str(<<"\t">>), Str(<<" ", " ">>), Str(<<"U+00A0">>),
      Str(<<"\r", "\n", " ">>), Str(<<"-">>) }
HeaderTokenStrings ==
    { <<>>, Str(<<"x">>), Str(<<"a", ".", "b", ".", "c">>) }
        \cup { TokenString(t) : t \in HeaderTokens }
        \cup { TokenString(t) \o Str(<<"x">>) : t \in GeneratedTokens }
HeaderTrails == { <<>>, Str(<<" ">>), Str(<<" ", "x">>) }

\* A request arrives with its header (the first one: before it the header
\* under study is the empty one).
HeaderArrives ==
    /\ header = <<>> /\ ~resolved.done /\ now = 0
    /\ \E lead \in HeaderLeads, scheme \in HeaderSchemes, sep \in HeaderSeparators,
          tok \in HeaderTokenStrings, trail \in HeaderTrails :
            header' = lead \o scheme \o sep \o tok \o trail
    /\ resolved' = NoResolve
    /\ UNCHANGED <<now, token, issued, authed, srvVars, extVars>>

\* Authenticate runs on the header; the token string it extracted is kept
\* beside its result.
Resolve ==
    /\ ~resolved.done
    /\ resolved' = [ done |-> TRUE, token |-> ExtractBearerToken(header),
                     auth |-> Authenticate(header, now), at |-> now ]
    /\ UNCHANGED <<now, token, issued, authed, header, srvVars, extVars>>

ResolveLater ==
    /\ now = 0
    /\ now' = AccessTokenDuration
    /\ resolved' = NoResolve
    /\ UNCHANGED <<token, issued, authed, header, srvVars, extVars>>

NextResolve == HeaderArrives \/ Resolve \/ ResolveLater

SpecResolve == Init /\ [][NextResolve]_vars

(***************************************************************************)
(* Claims about the token codec, checked under SpecToken.                  *)
(***************************************************************************)
\* The token presented is the one GenerateAccessTokenV2 returned, unaltered.
Intact == issued.done /\ token = issued.token

\* C8: decoding, with the same secret, a token just encoded (at the time
\* it was encoded) succeeds and yields exactly the user id, username and
\* role it was encoded for.
C8_RoundTrip ==
    (authed.done /\ Intact /\ authed.secret = issued.secret /\ authed.at = issued.at)
        => /\ authed.ok
           /\ authed.claims = [ UserID |-> issued.userID, Username |-> issued.username,
                                Role |-> issued.role ]

\* A token for the smallest int32 user id was encoded and decoded back.
C8_Witness ==
    /\ authed.done /\ Intact /\ authed.secret = issued.secret /\ authed.at = issued.at
    /\ issued.userID = MinInt32
    /\ authed.ok

\* C9: a token encoded at time t decodes at every time up to
\* t + D - 1 second and fails as expired at t + D and at every later time.
C9_ExpiryBoundary ==
    (authed.done /\ Intact /\ authed.secret = issued.secret)
        => /\ (authed.at <= issued.at + AccessTokenDuration - TicksPerSecond) => authed.ok
           /\ (authed.at >= issued.at + AccessTokenDuration)
                => (~authed.ok /\ authed.err = {"Expired"})

\* A token encoded on a whole second was refused exactly D later.
C9_Witness ==
    /\ authed.done /\ Intact /\ authed.secret = issued.secret
    /\ issued.at % TicksPerSecond = 0
    /\ authed.at = issued.at + AccessTokenDuration
    /\ authed.err = {"Expired"}

\* C10: ParseAccessTokenV2 succeeds only for a token signed under the given
\* secret with HS256 and key id "v1", with the fixed issuer and audience,
\* of type "access", and presented before its expires_at.
C10_DecodeOnlyValid ==
    (authed.done /\ authed.parsed)
        => /\ token.alg = SigningMethodHS256
           /\ token.kid = KeyID
           /\ token.sig = Sign(authed.secret, SigningInput(token))
           /\ token.iss = Issuer
           /\ AccessTokenAudienceName \in token.aud
           /\ token.type = "access"
           /\ token.hasExp
           /\ authed.at < token.exp * TicksPerSecond

(***************************************************************************)
(* Claims about the permission checks.  The identity of a request is the   *)
(* current user its handler resolves (resp.uid, resp.role): absent when    *)
(* the context carries no claims or the user of the claims is not stored.  *)
(***************************************************************************)
IdentityPresent == resp.uid # 0
IdentityPrivileged == resp.role \in {RoleAdmin, RoleHost}
Granted == resp.status.code \in {CodeOK, HTTPOK}

\* CanRead of a note with the given visibility and author for the identity.
CanRead(visibility, author) ==
    \/ visibility = NOTE_VISIBILITY_PUBLIC
    \/ IdentityPresent /\ (resp.uid = author \/ IdentityPrivileged)

\* C1: GetNote of a note that exists returns the note iff the note is
\* PUBLIC, or the identity is present and is the note's author or has role
\* ADMIN or HOST.
C1_GetNoteVisibility ==
    (resp.op = "/api.v1.NoteService/GetNote" /\ resp.subject.found)
        => (Granted <=> CanRead(resp.subject.visibility, resp.subject.author))

\* An ADMIN that is not the author was given a PRIVATE note.
C1_Witness ==
    /\ resp.op = "/api.v1.NoteService/GetNote"
    /\ resp.subject.found
    /\ resp.subject.visibility = NOTE_VISIBILITY_PRIVATE
    /\ resp.role = RoleAdmin
    /\ resp.uid # resp.subject.author
    /\ Granted

NoteMutations == {"/api.v1.NoteService/UpdateNote", "/api.v1.NoteService/DeleteNote"}
Denied == resp.status.code \in {CodeUnauthenticated, CodePermissionDenied}

\* The step is a request of an identity that may mutate a note of the author.
MutationByAuthorized(author) ==
    /\ resp'.op \in NoteMutations
    /\ resp'.uid # 0
    /\ resp'.uid = author \/ resp'.role \in {RoleAdmin, RoleHost}

\* C2: a step changes or removes a note only if it is an UpdateNote or a
\* DeleteNote of an identity that is present and is the note's author (as
\* stored when the request came in) or has role ADMIN or HOST; and an
\* UpdateNote or DeleteNote of a note that exists is refused as
\* unauthenticated or forbidden exactly when the identity is not such a one,
\* whatever the visibility of the note.
C2_NoteMutationAuthorized ==
    [][ /\ \A n \in 1..Len(notes) :
              (notes[n].exists /\ notes'[n] # notes[n]) => MutationByAuthorized(notes[n].author)
        /\ (resp'.op \in NoteMutations /\ resp'.subject.found)
              => (Denied' <=> ~MutationByAuthorized(resp'.subject.author)) ]_vars

\* An ADMIN that is not the author deleted a PRIVATE note.
C2_Witness ==
    /\ resp.op = "/api.v1.NoteService/DeleteNote"
    /\ resp.subject.found
    /\ resp.subject.visibility = NOTE_VISIBILITY_PRIVATE
    /\ resp.role = RoleAdmin
    /\ resp.uid # resp.subject.author
    /\ Granted
    /\ \E n \in 1..Len(notes) : ~notes[n].exists

AttachmentReads ==
    {"/api.v1.AttachmentService/GetAttachment", "GET /file/attachments/:id/:filename"}

\* C3: a read (GetAttachment, file serving) of an attachment linked to a
\* note that exists is granted exactly when CanRead holds on the note for
\* the identity.
C3_LinkedAttachmentRead ==
    (/\ resp.op \in AttachmentReads
     /\ resp.subject.found /\ resp.subject.linked /\ resp.subject.visibility # None)
        => (Granted <=> CanRead(resp.subject.visibility, resp.subject.noteAuthor))

\* C4: a read (GetAttachment, file serving) of an attachment linked to no
\* note is granted iff the identity is present and is the attachment's
\* author.
C4_UnlinkedAttachmentRead ==
    (resp.op \in AttachmentReads /\ resp.subject.found /\ ~resp.subject.linked)
        => (Granted <=> (IdentityPresent /\ resp.uid = resp.subject.author))

\* C5: on the Connect and the gateway path, a request for a procedure that
\* is not public whose Authorization header does not authenticate is
\* refused as unauthenticated and its handler does not run; a request for a
\* public procedure runs its handler.
C5_AbsentIdentityRejected ==
    (resp.path \in APIPaths /\ ~resp.authenticated)
        => IF IsPublicMethod(resp.op) THEN resp.ran
           ELSE resp.status.code = CodeUnauthenticated /\ ~resp.ran

\* C6: a step changes the stored role of a user only if it is an UpdateUser
\* of an identity with role ADMIN or HOST.
C6_RoleChangeNeedsAdmin ==
    [][ \A i \in 1..Len(users) :
            users'[i].role # users[i].role
                => /\ resp'.op = "/api.v1.UserService/UpdateUser"
                   /\ resp'.role \in {RoleAdmin, RoleHost} ]_vars

PermissionChecked ==
    { "/api.v1.NoteService/GetNote", "/api.v1.NoteService/CreateNote",
      "/api.v1.NoteService/UpdateNote", "/api.v1.NoteService/DeleteNote",
      "/api.v1.AttachmentService/GetAttachment",
      "/api.v1.AttachmentService/UpdateAttachment",
      "/api.v1.AttachmentService/DeleteAttachment",
      "GET /file/attachments/:id/:filename" }

\* The messages of the errors that refuse a request for who is asking.
DenialMessages ==
    { "authentication required", "permission denied", "forbidden access",
      "no permission to access this note" }

\* C7: a permission-checked operation that refuses an absent identity
\* answers with the unauthenticated outcome (Unauthenticated, 401), and one
\* that refuses a present identity with the forbidden outcome
\* (PermissionDenied, 403).
C7_DenialClasses ==
    (resp.op \in PermissionChecked /\ resp.status.msg \in DenialMessages)
        => IF IdentityPresent
           THEN resp.status.code \in {CodePermissionDenied, HTTPForbidden}
           ELSE resp.status.code \in {CodeUnauthenticated, HTTPUnauthorized}

(***************************************************************************)
(* Claims about the resolver, checked under SpecResolve.                   *)
(***************************************************************************)
\* The first and the last character of the header that is no white space.
FirstNonSpace == CHOOSE i \in 1..Len(header) : ~IsSpace(header[i]) /\ \A p \in 1..(i - 1) : IsSpace(header[p])
LastNonSpace == CHOOSE l \in 1..Len(header) : ~IsSpace(header[l]) /\ \A p \in (l + 1)..Len(header) : IsSpace(header[p])

\* The header is white space, a word from j characters, white space, a
\* word up to the last character that is no white space, white space.
TwoFieldsAt(j, k) ==
    /\ \E p \in 1..Len(header) : ~IsSpace(header[p])
    /\ FirstNonSpace <= j /\ j + 1 < k /\ k <= LastNonSpace
    /\ \A p \in FirstNonSpace..j : ~IsSpace(header[p])
    /\ \A p \in (j + 1)..(k - 1) : IsSpace(header[p])
    /\ \A p \in k..LastNonSpace : ~IsSpace(header[p])

\* The word is "bearer" written in any case.
IsBearerWord(w) ==
    /\ Len(w) = 6
    /\ w[1].c \in {"b", "B"} /\ w[2].c \in {"e", "E"} /\ w[3].c \in {"a", "A"}
    /\ w[4].c \in {"r", "R"} /\ w[5].c \in {"e", "E"} /\ w[6].c \in {"r", "R"}

\* The header is a bearer word and one more word.
BearerShape(j, k) == TwoFieldsAt(j, k) /\ IsBearerWord(SubSeq(header, FirstNonSpace, j))

\* C12: ExtractBearerToken returns the second field of a header of exactly
\* two white-space-delimited fields whose first is "bearer" in any case,
\* and no token for every other header.
C12_ExtractBearerToken ==
    resolved.done =>
        IF \E j, k \in 1..Len(header) : BearerShape(j, k)
        THEN \E j, k \in 1..Len(header) :
                BearerShape(j, k) /\ resolved.token = SubSeq(header, k, LastNonSpace)
        ELSE resolved.token = <<>>

\* A token was extracted from a header with white space before the scheme,
\* a scheme in mixed case, a tab as the separator and white space behind.
C12_Witness ==
    /\ resolved.done
    /\ resolved.token # <<>>
    /\ IsSpace(header[1]) /\ IsSpace(header[Len(header)])
    /\ \E p \in 1..Len(header) : header[p].c = "\t"
    /\ \E p \in 1..Len(header) : header[p].c = "E"
    /\ \E p \in 1..Len(header) : header[p].c = "e"

\* C11: Authenticate returns claims or nil for every header, and nil when
\* the header carries no bearer token, when ParseAccessTokenV2 fails on the
\* token and when the subject of the token is no 32-bit integer; otherwise
\* it returns the claims of the token.
C11_ResolveTotal ==
    resolved.done =>
        LET t == TokenOf(resolved.token)
            failed == \/ resolved.token = <<>>
                      \/ ~ParseAccessTokenV2(t, ServerSecret, resolved.at).ok
                      \/ ~ConvertStringToInt32(t.sub).ok
        IN  /\ resolved.auth.present \in BOOLEAN
            /\ failed => resolved.auth = NilAuthResult
            /\ ~failed => /\ resolved.auth.present
                          /\ resolved.auth.Claims.UserID \in MinInt32..MaxInt32
                          /\ resolved.auth.Claims.UserID = ConvertStringToInt32(t.sub).value
                          /\ resolved.auth.Claims.Username = t.username
                          /\ resolved.auth.Claims.Role = t.role

\* A token that parses but whose subject is beyond int32 resolved to nil.
C11_Witness ==
    /\ resolved.done
    /\ resolved.token # <<>>
    /\ ParseAccessTokenV2(TokenOf(resolved.token), ServerSecret, resolved.at).ok
    /\ ~ConvertStringToInt32(TokenOf(resolved.token).sub).ok
    /\ resolved.auth = NilAuthResult

(***************************************************************************)
(* Claims about the user store, checked under SpecUsers.                   *)
(***************************************************************************)
\* C13: a registration that succeeds adds a user with role HOST when it is
\* the first one that ever succeeded (no row in the table) and with role
\* USER when it is a later one.
C13_FirstUserHost ==
    [][ Len(users') > Len(users)
            => users'[Len(users')].role = IF Len(users) = 0 THEN RoleHost ELSE RoleUser ]_vars

(***************************************************************************)
(* Claims about publishing, checked under SpecPublish.                     *)
(***************************************************************************)
\* The step is an UpdateNote that succeeded.
UpdateNoteSucceeds ==
    /\ resp = NoResp
    /\ resp'.op = "/api.v1.NoteService/UpdateNote"
    /\ resp'.status.code = CodeOK

\* C14: an UpdateNote that publishes a note that was not published sets its
\* published_at to the current time, and an UpdateNote of a note that is
\* published leaves its published_at as it was.
C14_PublishedAt ==
    [][ UpdateNoteSucceeds =>
            \A n \in 1..Len(notes) :
                /\ (~notes[n].published /\ notes'[n].published)
                        => Unix(notes'[n].publishedAt) = Unix(now)
                /\ notes[n].published
                        => Unix(notes'[n].publishedAt) = Unix(notes[n].publishedAt) ]_vars

(***************************************************************************)
(* Claims about the identity a token gives its bearer.  C15 is checked     *)
(* under Spec, where users are deleted and no token expires; C16 under     *)
(* SpecAttach, where roles are changed and no user is deleted.             *)
(***************************************************************************)
\* The operations that need a current user.
ProtectedOperations ==
    { "/api.v1.NoteService/CreateNote", "/api.v1.NoteService/UpdateNote",
      "/api.v1.NoteService/DeleteNote",
      "/api.v1.AttachmentService/CreateAttachment",
      "/api.v1.AttachmentService/UpdateAttachment",
      "/api.v1.AttachmentService/DeleteAttachment" }

\* C15: a request for a protected operation that comes through the auth
\* interceptor with a token that decodes (it has not expired) runs with its
\* bearer as the current user, whatever happened in the store since the
\* token was issued.
C15_TokenValidUntilExpiry ==
    (resp.path = ConnectPath /\ resp.authenticated /\ resp.op \in ProtectedOperations)
        => /\ resp.ran
           /\ IdentityPresent
           /\ resp.status.msg # "authentication required"

\* C16: the user id and the role a handler decides with are those of the
\* claims of the request's token.
C16_IdentityFromToken ==
    (resp.path \in {ConnectPath, FilePath} /\ resp.authenticated /\ resp.ran)
        => /\ resp.uid = resp.claims.UserID
           /\ convertUserRoleToProto(resp.role) = resp.claims.Role

(***************************************************************************)
(* Claims about attachment mutations, checked under SpecAttach.            *)
(***************************************************************************)
AttachmentMutations ==
    {"/api.v1.AttachmentService/UpdateAttachment", "/api.v1.AttachmentService/DeleteAttachment"}

\* C17: an UpdateAttachment or DeleteAttachment of an attachment that
\* exists takes effect iff the identity is present and is the author of
\* the attachment or has role ADMIN or HOST, and otherwise leaves the
\* attachments as they are.
C17_AttachmentMutationAuthorized ==
    [][ (resp = NoResp /\ resp'.op \in AttachmentMutations /\ resp'.subject.found)
            => LET authorized == /\ resp'.uid # 0
                                 /\ \/ resp'.uid = resp'.subject.author
                                    \/ resp'.role \in {RoleAdmin, RoleHost}
               IN  /\ Granted' <=> authorized
                   /\ ~authorized => attachments' = attachments ]_vars

(***************************************************************************)
(* Claims about the author of a note, checked under Spec.                  *)
(***************************************************************************)
\* C18: CreateNote stores the id of the current user as the author of the
\* note, and the author of a note that exists stays the same through every
\* later step.
C18_NoteAuthorFixed ==
    [][ /\ Len(notes') > Len(notes) => notes'[Len(notes')].author = resp'.uid
        /\ \A n \in 1..Len(notes) :
              (notes[n].exists /\ notes'[n].exists) => notes'[n].author = notes[n].author ]_vars

(***************************************************************************)
(* Claims about the user records, checked under SpecUsers.                 *)
(***************************************************************************)
\* The step is a request for the procedure taken from the idle state.
RequestOf(procedure) == resp = NoResp /\ resp'.op = procedure

\* The username of the payload belongs to a record other than the one the
\* request is about.
WouldDuplicate ==
    /\ resp'.subject.name # ""
    /\ \E i \in 1..Len(users) :
          i # resp'.subject.author /\ users[i].username = resp'.subject.name

\* C19: after every step no two records of the users table, deleted or not,
\* have the same username; a RegisterUser or an UpdateUser of a stored user
\* whose username belongs to another record fails and leaves the table as
\* it was.
C19_UsernameUnique ==
    [][ /\ \A i, j \in 1..Len(users') :
              i # j => users'[i].username # users'[j].username
        /\ ( /\ \/ RequestOf("/api.v1.UserService/RegisterUser")
                 \/ RequestOf("/api.v1.UserService/UpdateUser")
              /\ resp'.ran
              /\ WouldDuplicate )
                => (users' = users /\ resp'.status.code # CodeOK) ]_vars

\* A user was refused the username of a record that is deleted.
C19_Witness ==
    /\ resp.op = "/api.v1.UserService/UpdateUser"
    /\ resp.status.code = CodeInternal
    /\ \E i \in 1..Len(users) :
          /\ i # resp.subject.author
          /\ users[i].username = resp.subject.name
          /\ users[i].deleted
    /\ \E i \in 1..Len(users) : i = resp.subject.author /\ ~users[i].deleted

\* C20: no step removes a record of the users table; after a DeleteUser of
\* a stored user the record is there with its deletion marker, GetUserByID
\* and GetUserByUsername find nothing for it, and a DeleteUser of a record
\* that is deleted already changes nothing; LoginUser with the username of
\* a deleted record fails.
C20_SoftDelete ==
    [][ /\ Len(users') >= Len(users)
        /\ (RequestOf("/api.v1.UserService/DeleteUser") /\ resp'.ran)
              => \A id \in 1..Len(users) :
                    id = resp'.subject.author
                        => /\ users'[id].deleted
                           /\ users'[id].username = users[id].username
                           /\ ~GetUserByID(id)'.present
                           /\ ~GetUserByUsername(users[id].username)'.present
                           /\ users[id].deleted => users' = users
        /\ ( /\ RequestOf("/api.v1.UserService/LoginUser")
              /\ \E id \in 1..Len(users) :
                    users[id].deleted /\ users[id].username = resp'.subject.name )
                => resp'.status.code # CodeOK ]_vars

\* A record that was deleted a token lifetime ago was deleted again, and
\* its marker is the old one.
C20_Witness ==
    /\ resp.op = "/api.v1.UserService/DeleteUser"
    /\ resp.ran
    /\ \E id \in 1..Len(users) :
          /\ id = resp.subject.author
          /\ users[id].deleted
          /\ users[id].deletedAt < now

(***************************************************************************)
(* Claims about who may change a user record, checked under SpecUsers.     *)
(***************************************************************************)
UserMutations == {"/api.v1.UserService/UpdateUser", "/api.v1.UserService/DeleteUser"}

\* C21: an UpdateUser or a DeleteUser changes the record of user X only if
\* the identity of the request is present and is user X or has role ADMIN
\* or HOST; a request of an absent identity or of another USER leaves the
\* record as it was.
C21_UserMutationAuthorized ==
    [][ \A x \in 1..Len(users) :
            (resp'.op \in UserMutations /\ users'[x] # users[x])
                => /\ resp'.uid # 0
                   /\ resp'.uid = x \/ resp'.role \in {RoleAdmin, RoleHost} ]_vars

(***************************************************************************)
(* Claims about LoginUser, checked under SpecUsers.                        *)
(***************************************************************************)
\* The records a login with the credentials of the response is for: not
\* deleted, with that username and a hash the password verifies against.
LoginMatches ==
    { id \in 1..Len(users) :
        /\ ~users[id].deleted
        /\ users[id].username = resp'.subject.name
        /\ CheckPassword(resp'.subject.password, users[id].passwordHash) }

\* The token the client holds after the step decodes to the record.
TokenDecodesTo(id) ==
    AuthenticateByAccessTokenV2(held', ServerSecret, now).claims
        = [ UserID |-> id, Username |-> users[id].username,
            Role |-> convertUserRoleToProto(users[id].role) ]

Drivers == {"sqlite", "mysql"}
ForeignKeys == driver # "sqlite"
HasGreatest == driver # "sqlite"

TagExists(tagID) == tagID \in 1..Len(tags) /\ tags[tagID].exists
CategoryExists(categoryID) == categoryID \in 1..Len(categories) /\ categories[categoryID].exists
UserRowExists(userID) == userID \in 1..Len(users)

\* Store.CreateTag and Store.CreateCategory: INSERT.
StoreCreateTag(count) == Append(tags, [exists |-> TRUE, count |-> count])
StoreCreateCategory == Append(categories, [exists |-> TRUE])

\* strconv.ParseUint on a tag id of a payload.
ParseUintOK(tagID) == tagID >= 0

\* The result of a transaction on the four tables; a failed one is rolled
\* back.
Tx(ok, ns, cols, nt, tg) == [ok |-> ok, notes |-> ns, noteCols |-> cols, noteTags |-> nt, tags |-> tg]
Rollback == Tx(FALSE, notes, noteCols, noteTags, tags)

\* INSERT INTO note_tags and UPDATE tags SET count = count + 1, for each tag
\* id of the list in turn.
RECURSIVE AddNoteTags(_, _, _, _)
AddNoteTags(id, tagIds, nt, tg) ==
    IF tagIds = <<>> THEN [ok |-> TRUE, noteTags |-> nt, tags |-> tg]
    ELSE LET tagID == Head(tagIds)
         IN  IF ~ParseUintOK(tagID) THEN [ok |-> FALSE, noteTags |-> nt, tags |-> tg]
             ELSE IF <<id, tagID>> \in nt THEN [ok |-> FALSE, noteTags |-> nt, tags |-> tg]
             ELSE IF ForeignKeys /\ ~TagExists(tagID)
             THEN [ok |-> FALSE, noteTags |-> nt, tags |-> tg]
             ELSE AddNoteTags(id, Tail(tagIds), nt \cup {<<id, tagID>>},
                              IF tagID \in 1..Len(tg) /\ tg[tagID].exists
                              THEN [tg EXCEPT ![tagID].count = @ + 1] ELSE tg)

\* UPDATE tags SET count = GREATEST(count - 1, 0), for each tag id of the set.
Greatest(a, b) == IF a > b THEN a ELSE b
DecrementTags(tagIDs, tg) ==
    [ t \in 1..Len(tg) |->
        IF t \in tagIDs /\ tg[t].exists
        THEN [tg[t] EXCEPT !.count = Greatest(@ - 1, 0)] ELSE tg[t] ]

\* The foreign keys of a notes row: category_id and author_id.
NoteKeysHold(categoryID, authorID) ==
    ~ForeignKeys \/ (CategoryExists(categoryID) /\ UserRowExists(authorID))

\* Store.CreateNote, the whole transaction: the row, then the tags.
StoreCreateNoteTx(authorID, visibility, published, publishedAt, title, categoryID, tagIds) ==
    LET id == Len(notes) + 1
        added == AddNoteTags(id, tagIds, noteTags, tags)
    IN  IF ~NoteKeysHold(categoryID, authorID) THEN Rollback
        ELSE IF ~added.ok THEN Rollback
        ELSE Tx(TRUE, StoreCreateNote(authorID, visibility, published, publishedAt),
                Append(noteCols, [title |-> title, categoryID |-> categoryID, tagIds |-> tagIds]),
                added.noteTags, added.tags)

\* Store.UpdateNote, the whole transaction: the row, then, for a payload
\* with tag ids, the tags that go and the tags that come.
StoreUpdateNoteTx(id, authorID, visibility, published, publishedAt, title, categoryID, tagIds) ==
    LET existingTagIDs == { t \in 1..Len(tags) : tags[t].exists /\ <<id, t>> \in noteTags }
        newTagIDs == { tagIds[k] : k \in 1..Len(tagIds) }
        tagsToAdd == SelectSeq(tagIds, LAMBDA t : t \notin existingTagIDs)
        tagsToRemove == existingTagIDs \ newTagIDs
        removed == { <<id, t>> : t \in tagsToRemove }
        added == AddNoteTags(id, tagsToAdd, noteTags \ removed, DecrementTags(tagsToRemove, tags))
        ns == StoreUpdateNote(id, authorID, visibility, published, publishedAt)
        cols == [noteCols EXCEPT ![id] = [title |-> title, categoryID |-> categoryID,
                                          tagIds |-> tagIds]]
    IN  IF ~NoteExists(id) THEN Rollback
        ELSE IF ~NoteKeysHold(categoryID, authorID) THEN Rollback
        ELSE IF tagIds = <<>> THEN Tx(TRUE, ns, cols, noteTags, tags)
        ELSE IF tagsToRemove # {} /\ ~HasGreatest THEN Rollback
        ELSE IF ~added.ok THEN Rollback
        ELSE Tx(TRUE, ns, cols, added.noteTags, added.tags)

\* Store.DeleteNote, the whole transaction: the counts go down, the
\* note_tags rows go, the row goes.
StoreDeleteNoteTx(id) ==
    LET tagIDs == { r[2] : r \in { q \in noteTags : q[1] = id } }
    IN  IF tagIDs # {} /\ ~HasGreatest THEN Rollback
        ELSE IF ~NoteExists(id) THEN Tx(TRUE, notes, noteCols, noteTags, tags)
        ELSE Tx(TRUE, StoreDeleteNote(id),
                [noteCols EXCEPT ![id] = [title |-> <<>>, categoryID |-> 0, tagIds |-> <<>>]],
                { r \in noteTags : r[1] # id }, DecrementTags(tagIDs, tags))

\* Mutant: the tag goes together with its note_tags rows.
StoreDeleteTag_Cascade(tagID) ==
    IF ~TagExists(tagID)
    THEN [err |-> "tag not found", tags |-> tags, noteTags |-> noteTags]
    ELSE [err |-> "", tags |-> [tags EXCEPT ![tagID] = [exists |-> FALSE, count |-> 0]],
          noteTags |-> { r \in noteTags : r[2] # tagID }]

\* Store.DeleteTag: refused while a note_tags row has the tag; else the
\* row goes, or "tag not found".
StoreDeleteTag(tagID) ==
    IF \E r \in noteTags : r[2] = tagID
    THEN [err |-> "cannot delete tag: tag has note(s)", tags |-> tags, noteTags |-> noteTags]
    ELSE IF ~TagExists(tagID)
    THEN [err |-> "tag not found", tags |-> tags, noteTags |-> noteTags]
    ELSE [err |-> "", tags |-> [tags EXCEPT ![tagID] = [exists |-> FALSE, count |-> 0]],
          noteTags |-> { r \in noteTags : r[2] # tagID }]

\* Store.DeleteCategory: refused while a notes row has the category; else
\* the row goes, or "category not found".
StoreDeleteCategory(categoryID) ==
    IF \E n \in 1..Len(notes) : notes[n].exists /\ noteCols[n].categoryID = categoryID
    THEN [err |-> "cannot delete category: category has note(s)", categories |-> categories]
    ELSE IF ~CategoryExists(categoryID)
    THEN [err |-> "category not found", categories |-> categories]
    ELSE [err |-> "", categories |-> [categories EXCEPT ![categoryID] = [exists |-> FALSE]]]

\* APIV1Service.DeleteTag and APIV1Service.DeleteCategory: the error of the
\* store comes back as a plain error.
APIV1Service_DeleteTag(tagID) ==
    LET r == StoreDeleteTag(tagID)
    IN  [ status |-> IF r.err = "" THEN StatusOK
                     ELSE IF r.err = "cannot delete tag: tag has note(s)"
                     THEN Status(CodeUnknown, "the tag still has notes")
                     ELSE Status(CodeUnknown, "failed to delete tag"),
          tags |-> r.tags, noteTags |-> r.noteTags ]

APIV1Service_DeleteCategory(categoryID) ==
    LET r == StoreDeleteCategory(categoryID)
    IN  [ status |-> IF r.err = "" THEN StatusOK
                     ELSE IF r.err = "cannot delete category: category has note(s)"
                     THEN Status(CodeUnknown, "the category still has notes")
                     ELSE Status(CodeUnknown, "failed to delete category"),
          categories |-> r.categories ]

DeleteTagRequest(path, authHeader, tagID) ==
    LET procedure == "/api.v1.TagService/DeleteTag"
        d == Dispatch(path, authHeader, procedure, now)
        h == IF d.rejected
             THEN [status |-> InterceptorError, tags |-> tags, noteTags |-> noteTags]
             ELSE APIV1Service_DeleteTag(tagID)
    IN  /\ resp = NoResp
        /\ tags' = h.tags
        /\ noteTags' = h.noteTags
        /\ resp' = APIResponse(procedure, path, authHeader, d, h.status,
                               [NoSubject EXCEPT !.author = tagID])
        /\ UNCHANGED <<now, users, notes, attachments, held, categories, noteCols, driver>>

DeleteCategoryRequest(path, authHeader, categoryID) ==
    LET procedure == "/api.v1.CategoryService/DeleteCategory"
        d == Dispatch(path, authHeader, procedure, now)
        h == IF d.rejected THEN [status |-> InterceptorError, categories |-> categories]
             ELSE APIV1Service_DeleteCategory(categoryID)
    IN  /\ resp = NoResp
        /\ categories' = h.categories
        /\ resp' = APIResponse(procedure, path, authHeader, d, h.status,
                               [NoSubject EXCEPT !.author = categoryID])
        /\ UNCHANGED <<now, users, notes, attachments, held, tags, noteTags, noteCols, driver>>

(***************************************************************************)
(* Specification of the catalog: under either driver a user, tags and      *)
(* categories are stored, notes are created, updated and deleted with      *)
(* every list of tag ids, and tags and categories are deleted through the  *)
(* API.                                                                    *)
(***************************************************************************)
MaxTags == 2
MaxCategories == 1
MaxCatalogNotes == 2

\* The tag id lists of a payload: none, one id, two ids, one id twice, and
\* a text that is no number.  The ids are ids the tags table has given out:
\* an id is the id of no tag once its tag is deleted.
TagIdLists ==
    { l \in { <<>>, <<1>>, <<2, 1>>, <<1, 1>>, <<-1>> } : \A k \in 1..Len(l) : l[k] <= Len(tags) }
\* The category ids of a payload: none (0) or the first category.
CategoryIds == 0..MaxCategories
NoteTitle == <<"t">>

InitCatalog ==
    /\ TokInit /\ SrvInit
    /\ tags = <<>>
    /\ categories = <<>>
    /\ noteTags = {}
    /\ noteCols = <<>>
    /\ driver \in Drivers
    /\ listing = NoListing
    /\ regs = NoRegs
    /\ client = NoClient

\* Store.CreateUser, Store.CreateTag with count 0 and Store.CreateCategory.
UserStored ==
    /\ resp = NoResp
    /\ users = <<>>
    /\ users' = CreateUser("alice", HashPassword(GoodPassword), RoleHost).users
    /\ UNCHANGED <<now, notes, attachments, held, resp, catVars>>

TagStored ==
    /\ resp = NoResp
    /\ Len(tags) < MaxTags
    /\ tags' = StoreCreateTag(0)
    /\ UNCHANGED <<now, srvVars, categories, noteTags, noteCols, driver>>

CategoryStored ==
    /\ resp = NoResp
    /\ Len(categories) < MaxCategories
    /\ categories' = StoreCreateCategory
    /\ UNCHANGED <<now, srvVars, tags, noteTags, noteCols, driver>>

\* The four tables after a transaction.
Commit(tx) ==
    /\ notes' = tx.notes
    /\ noteCols' = tx.noteCols
    /\ noteTags' = tx.noteTags
    /\ tags' = tx.tags
    /\ UNCHANGED <<now, users, attachments, held, resp, categories, driver>>

NoteStored ==
    /\ resp = NoResp
    /\ Len(notes) < MaxCatalogNotes
    /\ \E tagIds \in TagIdLists, categoryID \in CategoryIds :
          Commit(StoreCreateNoteTx(1, NOTE_VISIBILITY_PUBLIC, FALSE, 0, NoteTitle,
                                   categoryID, tagIds))

NoteRewritten ==
    /\ resp = NoResp
    /\ \E id \in 1..Len(notes), tagIds \in TagIdLists, categoryID \in CategoryIds :
          Commit(StoreUpdateNoteTx(id, 1, NOTE_VISIBILITY_PUBLIC, FALSE, 0, NoteTitle,
                                   categoryID, tagIds))

NoteRemoved ==
    /\ resp = NoResp
    /\ \E id \in 1..Len(notes) : Commit(StoreDeleteNoteTx(id))

\* Tags and categories are deleted through the gateway, which asks for no
\* credentials.
CatalogDeletions ==
    \/ \E tagID \in 1..(MaxTags + 1) : DeleteTagRequest(GatewayPath, <<>>, tagID)
    \/ \E categoryID \in 1..(MaxCategories + 1) :
            DeleteCategoryRequest(GatewayPath, <<>>, categoryID)

NextCatalog ==
    \/ UserStored /\ UNCHANGED <<tokVars, listing, regs, client>>
    \/ TagStored /\ UNCHANGED <<tokVars, listing, regs, client>>
    \/ CategoryStored /\ UNCHANGED <<tokVars, listing, regs, client>>
    \/ NoteStored /\ UNCHANGED <<tokVars, listing, regs, client>>
    \/ NoteRewritten /\ UNCHANGED <<tokVars, listing, regs, client>>
    \/ NoteRemoved /\ UNCHANGED <<tokVars, listing, regs, client>>
    \/ CatalogDeletions /\ UNCHANGED <<tokVars, listing, regs, client>>
    \/ ClientReceives /\ UNCHANGED <<tokVars, extVars>>

SpecCatalog == InitCatalog /\ [][NextCatalog]_vars

(***************************************************************************)
(* ListNotes (store/tag.go and the note service).  The operators take the  *)
(* notes table they read, so that the answer of a request can be told for  *)
(* a table other than the one of the state.                                *)
(***************************************************************************)
\* scanNote of the row of a notes table.
ScanNoteRow(ns, id) ==
    [found |-> TRUE, Id |-> id, AuthorId |-> ns[id].author,
     Visibility |-> ScanVisibility(ns[id].visibility),
     Published |-> ns[id].published, PublishedAt |-> Unix(ns[id].publishedAt)]

\* title LIKE '%search%'.
Like(title, search) ==
    \E k \in 0..(Len(title) - Len(search)) : SubSeq(title, k + 1, k + Len(search)) = search

\* The rows the WHERE conditions of Store.ListNotes keep: category, tag (by
\* the join with note_tags), search and published; a filter that is empty
\* (0 for an id) adds no condition.
ListNotesWhere(ns, req) ==
    { id \in 1..Len(ns) :
        /\ ns[id].exists
        /\ req.categoryID # 0 => noteCols[id].categoryID = req.categoryID
        /\ req.tagID # 0 => <<id, req.tagID>> \in noteTags
        /\ req.search # <<>> => Like(noteCols[id].title, req.search)
        /\ ~req.includeUnpublished => ns[id].published }

\* The columns ORDER BY can name, and the value a row is ordered by:
\* published_at when the request names none.
SortColumns == {"", "id", "published_at"}
SortValue(ns, id, sortBy) == IF sortBy = "id" THEN id ELSE ns[id].publishedAt

\* The sequences without repetition of all the elements of a set.
RECURSIVE Orderings(_)
Orderings(S) ==
    IF S = {} THEN {<<>>}
    ELSE UNION { { <<x>> \o p : p \in Orderings(S \ {x}) } : x \in S }

\* The orders in which ORDER BY sortBy ASC or DESC may deliver the rows:
\* rows of the same value come in any order.
ListNotesOrders(ns, req) ==
    { rows \in Orderings(ListNotesWhere(ns, req)) :
        \A i, j \in 1..Len(rows) :
            i < j => IF req.sortDesc
                     THEN SortValue(ns, rows[i], req.sortBy) >= SortValue(ns, rows[j], req.sortBy)
                     ELSE SortValue(ns, rows[i], req.sortBy) <= SortValue(ns, rows[j], req.sortBy) }

Min(a, b) == IF a < b THEN a ELSE b

\* Store.ListNotes: the count of the rows kept, and the rows of the page
\* (LIMIT pageSize OFFSET (page - 1) * pageSize) of the order delivered; an
\* ORDER BY of no column is an error.
StoreListNotes(ns, req, rows) ==
    LET offset == (req.page - 1) * req.pageSize
        ids == SubSeq(rows, offset + 1, Min(offset + req.pageSize, Len(rows)))
    IN  IF req.sortBy \notin SortColumns THEN [ok |-> FALSE, notes |-> <<>>, total |-> 0]
        ELSE [ok |-> TRUE, notes |-> [k \in 1..Len(ids) |-> ScanNoteRow(ns, ids[k])],
              total |-> Cardinality(ListNotesWhere(ns, req))]

\* Mutant: notes that are not published are asked for as well.
ListNotesStoreRequest_WithDrafts(req) ==
    [req EXCEPT !.page = IF req.page <= 0 THEN 1 ELSE req.page,
                !.pageSize = IF req.pageSize <= 0 THEN 10 ELSE Min(req.pageSize, 100),
                !.includeUnpublished = TRUE]

\* The store request APIV1Service.ListNotes builds: page and page size get
\* their defaults and cap, only published notes are asked for.
ListNotesStoreRequest(req) ==
    [req EXCEPT !.page = IF req.page <= 0 THEN 1 ELSE req.page,
                !.pageSize = IF req.pageSize <= 0 THEN 10 ELSE Min(req.pageSize, 100),
                !.includeUnpublished = FALSE]

\* APIV1Service.ListNotes: the notes of the page that the current user may
\* not see are left out; the total and the number of pages are those of
\* the store.
APIV1Service_ListNotes(ns, req, currentUser, rows) ==
    LET storeReq == ListNotesStoreRequest(req)
        r == StoreListNotes(ns, storeReq, rows)
        totalPages == (r.total + storeReq.pageSize - 1) \div storeReq.pageSize
    IN  IF ~r.ok
        THEN [status |-> Status(CodeUnknown, "failed to list notes"), listing |-> NoListing]
        ELSE [status |-> StatusOK,
              listing |-> [NoListing EXCEPT
                             !.req = req,
                             !.notes = SelectSeq(r.notes,
                                          LAMBDA note : isNoteVisibleToUser(note, currentUser)),
                             !.total = r.total,
                             !.totalPages = IF totalPages < 1 THEN 1 ELSE totalPages]]

ListNotesRequest(path, authHeader, req) ==
    LET procedure == "/api.v1.NoteService/ListNotes"
        d == Dispatch(path, authHeader, procedure, now)
    IN  /\ resp = NoResp
        /\ \E rows \in ListNotesOrders(notes, ListNotesStoreRequest(req)) :
              LET h == IF d.rejected THEN [status |-> InterceptorError, listing |-> NoListing]
                       ELSE APIV1Service_ListNotes(notes, req, fetchCurrentUser(d.auth), rows)
              IN  /\ listing' = h.listing
                  /\ resp' = APIResponse(procedure, path, authHeader, d, h.status, NoSubject)
        /\ UNCHANGED <<now, users, notes, attachments, held, catVars>>

(***************************************************************************)
(* Specification of listing: two users register and log in, notes of       *)
(* either author are stored, public and private, published and not, and    *)
(* ListNotes is asked for on both API paths with every header, page, page  *)
(* size, search and order.                                                 *)
(***************************************************************************)
MaxListedNotes == 2

NoteTitles == { <<"g", "o">>, <<"t", "l", "a">> }

ListSetup ==
    \E u \in Usernames :
        \/ RegisterUserRequest(ConnectPath, <<>>, u, GoodPassword)
        \/ LoginUserRequest(ConnectPath, <<>>, u, GoodPassword)

ListedNoteStored ==
    /\ resp = NoResp
    /\ Len(notes) < MaxListedNotes
    /\ \E authorID \in 1..Len(users), published \in BOOLEAN, title \in NoteTitles,
          visibility \in {NOTE_VISIBILITY_PUBLIC, NOTE_VISIBILITY_PRIVATE} :
            Commit(StoreCreateNoteTx(authorID, visibility, published, 0, title, 0, <<>>))

\* The requests: the first page of the default size, and the pages of one
\* note; no filter, or a search; the default order, by id, or by a column
\* the table does not have.
ListNotesRequests ==
    { [page |-> pg[1], pageSize |-> pg[2], categoryID |-> 0, tagID |-> 0, search |-> search,
       sortBy |-> sortBy, sortDesc |-> sortDesc, includeUnpublished |-> FALSE] :
        pg \in {<<0, 0>>, <<1, 1>>, <<2, 1>>}, search \in {<<>>, <<"o">>},
        sortBy \in {"", "id", "nonesuch"}, sortDesc \in BOOLEAN }

NoteListings ==
    \E path \in APIPaths, authHeader \in Headers, req \in ListNotesRequests :
        ListNotesRequest(path, authHeader, req)

\* The client takes the response, list and all.
ListReceived ==
    /\ ClientReceives
    /\ listing' = NoListing
    /\ UNCHANGED catVars

NextList ==
    \/ ListSetup /\ UNCHANGED <<tokVars, extVars>>
    \/ ListedNoteStored /\ UNCHANGED <<tokVars, listing, regs, client>>
    \/ NoteListings /\ UNCHANGED <<tokVars, regs, client>>
    \/ ListReceived /\ UNCHANGED <<tokVars, regs, client>>

SpecList == Init /\ [][NextList]_vars

(***************************************************************************)
(* ListAttachments (store/attachment.go and the attachment service).       *)
(***************************************************************************)
\* Mutant: the rows are not filtered by author.
StoreListAttachments_AnyAuthor(noteID, authorID) ==
    SelectSeq([id \in 1..Len(attachments) |-> id],
              LAMBDA id : /\ ~attachments[id].deleted
                          /\ noteID # 0 => attachments[id].noteId = noteID)

\* Store.ListAttachments: the rows that are not deleted, of the note and of
\* the author when given (0 for nil), in the order they were created in.
StoreListAttachments(noteID, authorID) ==
    SelectSeq([id \in 1..Len(attachments) |-> id],
              LAMBDA id : /\ ~attachments[id].deleted
                          /\ noteID # 0 => attachments[id].noteId = noteID
                          /\ authorID # 0 => attachments[id].author = authorID)

\* The note id Sscanf reads from the NoteId of a request: the id of
\* "notes/<id>", or none (0) for an empty NoteId and for one of another
\* form (here a negative number).
ListedNoteID(noteFilter) == IF noteFilter > 0 THEN noteFilter ELSE 0

\* APIV1Service.ListAttachments: with a note, the note must exist and be
\* visible to the current user; without one there must be a current user,
\* whose attachments are listed.  The list is cut to the page size.
APIV1Service_ListAttachments(currentUser, noteFilter, size) ==
    LET pageSize == IF size <= 0 THEN 50 ELSE Min(size, 1000)
        noteID == ListedNoteID(noteFilter)
        note == StoreGetNote(noteID)
        ids == StoreListAttachments(noteID, IF noteID # 0 THEN 0 ELSE currentUser.ID)
    IN  IF noteID # 0 /\ ~note.found
        THEN [status |-> Status(CodeNotFound, "note not found"), listing |-> NoListing]
        ELSE IF noteID # 0 /\ ~isNoteVisibleToUser(note, currentUser)
        THEN [status |-> Status(CodePermissionDenied, "permission denied"), listing |-> NoListing]
        ELSE IF noteID = 0 /\ ~currentUser.present
        THEN [status |-> Status(CodeUnauthenticated,
                                "authentication required to list all attachments"),
              listing |-> NoListing]
        ELSE [status |-> StatusOK,
              listing |-> [NoListing EXCEPT
                             !.attachments = SubSeq(ids, 1, Min(pageSize, Len(ids))),
                             !.total = Min(pageSize, Len(ids))]]

\* The subject of the request is the note it names; linked says that it
\* names one.
ListAttachmentsRequest(path, authHeader, noteFilter, size) ==
    LET procedure == "/api.v1.AttachmentService/ListAttachments"
        d == Dispatch(path, authHeader, procedure, now)
        h == IF d.rejected THEN [status |-> InterceptorError, listing |-> NoListing]
             ELSE APIV1Service_ListAttachments(fetchCurrentUser(d.auth), noteFilter, size)
    IN  /\ resp = NoResp
        /\ listing' = h.listing
        /\ resp' = APIResponse(procedure, path, authHeader, d, h.status,
                      [NoteSubject(StoreGetNote(ListedNoteID(noteFilter)))
                          EXCEPT !.linked = ListedNoteID(noteFilter) # 0])
        /\ UNCHANGED <<now, users, notes, attachments, held, catVars>>

(***************************************************************************)
(* Specification of listing attachments: two users register and log in, a  *)
(* note is created, attachments of either author, linked or not, are       *)
(* stored and deleted, and ListAttachments is asked for on both API paths  *)
(* with every header, with and without a note.                             *)
(***************************************************************************)
MaxListedAttachments == 2

ListedAttachmentStored ==
    /\ resp = NoResp
    /\ Len(attachments) < MaxListedAttachments
    /\ \E authorID \in 1..Len(users), noteID \in NoteLinks :
          attachments' = StoreCreateAttachment(authorID, noteID)
    /\ UNCHANGED <<now, users, notes, held, resp>>

ListedAttachmentDeleted ==
    /\ resp = NoResp
    /\ \E id \in 1..Len(attachments) :
          /\ ~attachments[id].deleted
          /\ attachments' = StoreDeleteAttachment(id)
    /\ UNCHANGED <<now, users, notes, held, resp>>

\* The NoteId of a request: empty, a note, the note after the last one, and
\* a text of another form.
NoteFilters == {-1} \cup (0..(MaxNotes + 1))

AttachmentListings ==
    \E path \in APIPaths, authHeader \in Headers, noteFilter \in NoteFilters, size \in {0, 1} :
        ListAttachmentsRequest(path, authHeader, noteFilter, size)

NextAttachList ==
    \/ ListSetup /\ UNCHANGED <<tokVars, extVars>>
    \/ NoteSetup /\ UNCHANGED <<tokVars, extVars>>
    \/ ListedAttachmentStored /\ UNCHANGED <<tokVars, extVars>>
    \/ ListedAttachmentDeleted /\ UNCHANGED <<tokVars, extVars>>
    \/ AttachmentListings /\ UNCHANGED <<tokVars, regs, client>>
    \/ ListReceived /\ UNCHANGED <<tokVars, regs, client>>

SpecAttachList == Init /\ [][NextAttachList]_vars

(***************************************************************************)
(* RegisterUser calls that run side by side.  UserService.RegisterUser and *)
(* Store.CreateUser run three statements on the database, in no            *)
(* transaction: the count, the check of the username, the INSERT.  regs    *)
(* has, for each call, the statement it is at and what it has read.        *)
(***************************************************************************)
Calls == 1..2

IdleCall == [pc |-> "idle", username |-> "", passwordHash |-> <<>>, role |-> None, err |-> ""]

InitRace ==
    /\ TokInit /\ SrvInit
    /\ tags = <<>>
    /\ categories = <<>>
    /\ noteTags = {}
    /\ noteCols = <<>>
    /\ driver = "sqlite"
    /\ listing = NoListing
    /\ regs = [c \in Calls |-> IdleCall]
    /\ client = NoClient

\* The request comes in: it is validated and the password is hashed.
RegisterCalled(c, username, password) ==
    /\ regs[c].pc = "idle"
    /\ regs' = [regs EXCEPT ![c] =
                  IF ~ValidateUserRegistrationRequest(username, password)
                  THEN [IdleCall EXCEPT !.pc = "done", !.username = username,
                                        !.err = "invalid request"]
                  ELSE [IdleCall EXCEPT !.pc = "count", !.username = username,
                                        !.passwordHash = HashPassword(password)]]
    /\ UNCHANGED users

\* s.store.CountUsers: the role is HOST when there is no user.
RegisterCounts(c) ==
    /\ regs[c].pc = "count"
    /\ regs' = [regs EXCEPT ![c].pc = "exists",
                            ![c].role = IF CountUsers = 0 THEN RoleHost ELSE RoleUser]
    /\ UNCHANGED users

\* Store.CreateUser, SELECT EXISTS: the call ends when a row has the
\* username.
RegisterChecks(c) ==
    /\ regs[c].pc = "exists"
    /\ regs' = [regs EXCEPT ![c] =
                  IF \E i \in 1..Len(users) : users[i].username = regs[c].username
                  THEN [@ EXCEPT !.pc = "done",
                                 !.err = "user with this username already exists"]
                  ELSE [@ EXCEPT !.pc = "insert"]]
    /\ UNCHANGED users

\* Store.CreateUser, INSERT: refused by the UNIQUE constraint on
\* users.username when a row has the username by now.
RegisterInserts(c) ==
    /\ regs[c].pc = "insert"
    /\ IF \E i \in 1..Len(users) : users[i].username = regs[c].username
       THEN /\ regs' = [regs EXCEPT ![c].pc = "done", ![c].err = "UNIQUE constraint failed"]
            /\ UNCHANGED users
       ELSE /\ regs' = [regs EXCEPT ![c].pc = "done"]
            /\ users' = Append(users, [username |-> regs[c].username,
                                       passwordHash |-> regs[c].passwordHash,
                                       role |-> regs[c].role,
                                       deleted |-> FALSE, deletedAt |-> 0])

RaceVars == <<now, notes, attachments, held, resp, tokVars, catVars, listing, client>>

NextRace ==
    \/ \E c \in Calls, r \in Registrations :
          RegisterCalled(c, r[1], r[2]) /\ UNCHANGED RaceVars
    \/ \E c \in Calls : RegisterCounts(c) /\ UNCHANGED RaceVars
    \/ \E c \in Calls : RegisterChecks(c) /\ UNCHANGED RaceVars
    \/ \E c \in Calls : RegisterInserts(c) /\ UNCHANGED RaceVars

SpecRace == InitRace /\ [][NextRace]_vars

(***************************************************************************)
(* The web client: the token storage of auth-state, the auth interceptor   *)
(* of the Connect client and the AuthProvider.  A handler of the page runs *)
(* to its first wait for the network; the answer to getCurrentUser runs    *)
(* the rest of initialize later.                                           *)
(***************************************************************************)
ClientTokens == {"token-alice", "token-bob"}
UserOfToken(t) == IF t = "token-alice" THEN "alice" ELSE "bob"
InitializeCalls == 1..2

\* getAccessToken: the token in memory, else the one of sessionStorage when
\* it has not expired (it is then kept in memory), else the expired one is
\* removed from sessionStorage.
getAccessToken(cl) ==
    IF cl.accessToken # "" THEN cl
    ELSE IF cl.sessionToken = "" \/ cl.sessionExpires = 0 THEN cl
    ELSE IF cl.sessionExpires > now
    THEN [cl EXCEPT !.accessToken = cl.sessionToken, !.tokenExpiresAt = cl.sessionExpires]
    ELSE [cl EXCEPT !.sessionToken = "", !.sessionExpires = 0]

\* setAccessToken: memory, and sessionStorage when there is a token with an
\* expiry; otherwise sessionStorage is emptied.
setAccessToken(cl, t, expiresAt) ==
    IF t # "" /\ expiresAt # 0
    THEN [cl EXCEPT !.accessToken = t, !.tokenExpiresAt = expiresAt,
                    !.sessionToken = t, !.sessionExpires = expiresAt]
    ELSE [cl EXCEPT !.accessToken = t, !.tokenExpiresAt = expiresAt,
                    !.sessionToken = "", !.sessionExpires = 0]

\* clearAccessToken: memory and sessionStorage.
clearAccessToken(cl) ==
    [cl EXCEPT !.accessToken = "", !.tokenExpiresAt = 0,
               !.sessionToken = "", !.sessionExpires = 0]

\* setState of the AuthProvider.
SignedOutState(cl) ==
    [cl EXCEPT !.currentUser = "", !.isInitialized = TRUE, !.isLoading = FALSE]
SignedInState(cl, user) ==
    [cl EXCEPT !.currentUser = user, !.isInitialized = TRUE, !.isLoading = FALSE]

\* initialize up to its await: without a token the state is signed out and
\* the call is over; with one, getCurrentUser goes out with the token the
\* interceptor reads.
initialize(cl, c) ==
    LET read == getAccessToken([cl EXCEPT !.isLoading = TRUE])
    IN  IF read.accessToken = "" THEN SignedOutState(read)
        ELSE [read EXCEPT !.calls[c] = [pc |-> "awaiting", sent |-> read.accessToken]]

\* The AuthProvider mounts, or a component calls initialize.
InitializeCalled(c) ==
    /\ client.calls[c].pc = "idle"
    /\ client' = initialize(client, c)

\* getCurrentUser answers with the user of the token: the rest of
\* initialize sets the state.
InitializeResolves(c) ==
    /\ client.calls[c].pc = "awaiting"
    /\ client' = [SignedInState(client, UserOfToken(client.calls[c].sent))
                     EXCEPT !.calls[c] = [pc |-> "idle", sent |-> ""]]

\* getCurrentUser fails: for an unauthenticated error the interceptor calls
\* setAccessToken(null); the catch of initialize clears the token and signs
\* out.
InitializeRejects(c, unauthenticated) ==
    /\ client.calls[c].pc = "awaiting"
    /\ client' = [SignedOutState(clearAccessToken(
                      IF unauthenticated THEN setAccessToken(client, "", 0) ELSE client))
                     EXCEPT !.calls[c] = [pc |-> "idle", sent |-> ""]]

\* login: setAccessToken, then initialize.
LoginCalled(c, t, expiresAt) ==
    /\ client.calls[c].pc = "idle"
    /\ client' = initialize([setAccessToken(client, t, expiresAt) EXCEPT !.loggedOut = FALSE], c)

\* logout: clearAccessToken, then the state is signed out.
LogoutCalled ==
    client' = [SignedOutState(clearAccessToken(client)) EXCEPT !.loggedOut = TRUE]

\* The page is loaded anew: memory and the calls under way are gone,
\* sessionStorage stays.
PageReloads ==
    client' = [NoClient EXCEPT !.sessionToken = client.sessionToken,
                               !.sessionExpires = client.sessionExpires,
                               !.loggedOut = client.loggedOut]

ClientTimePasses ==
    /\ now = 0
    /\ now' = AccessTokenDuration
    /\ UNCHANGED client

ClientVars == <<token, issued, authed, header, resolved, srvVars, catVars, listing, regs>>

NextClient ==
    \/ \E c \in InitializeCalls : InitializeCalled(c) /\ UNCHANGED <<now, ClientVars>>
    \/ \E c \in InitializeCalls : InitializeResolves(c) /\ UNCHANGED <<now, ClientVars>>
    \/ \E c \in InitializeCalls, unauthenticated \in BOOLEAN :
          InitializeRejects(c, unauthenticated) /\ UNCHANGED <<now, ClientVars>>
    \/ \E c \in InitializeCalls, t \in ClientTokens, expiresAt \in {0, AccessTokenDuration} :
          LoginCalled(c, t, expiresAt) /\ UNCHANGED <<now, ClientVars>>
    \/ LogoutCalled /\ UNCHANGED <<now, ClientVars>>
    \/ PageReloads /\ UNCHANGED <<now, ClientVars>>
    \/ ClientTimePasses /\ UNCHANGED ClientVars

SpecClient == Init /\ [][NextClient]_vars

(***************************************************************************)
(* Claims about tags and categories, checked under SpecCatalog.            *)
(***************************************************************************)
\* The tags note_tags associates with a note, and the notes it associates
\* with a tag.
TagsOfNote(n) == { r[2] : r \in { q \in noteTags : q[1] = n } }
NotesOfTag(t) == { r[1] : r \in { q \in noteTags : q[2] = t } }

\* The notes whose category_id, or whose tag_ids column, has the id.
NotesOfCategory(c) == { n \in 1..Len(notes) : notes[n].exists /\ noteCols[n].categoryID = c }
NotesNamingTag(t) ==
    { n \in 1..Len(notes) :
        notes[n].exists /\ \E k \in 1..Len(noteCols[n].tagIds) : noteCols[n].tagIds[k] = t }

\* C25: a DeleteTag of a tag that note_tags associates with a note, and a
\* DeleteCategory of a category that a note has, fail and leave the tags,
\* categories, notes and note_tags tables as they were; one that succeeds
\* was for a tag or category no note referred to.
C25_DeleteRefusedWhileInUse ==
    [][ /\ (RequestOf("/api.v1.TagService/DeleteTag") /\ resp'.ran)
              => /\ NotesOfTag(resp'.subject.author) # {}
                    => /\ resp'.status.code # CodeOK
                       /\ UNCHANGED <<tags, categories, notes, noteCols, noteTags>>
                 /\ resp'.status.code = CodeOK
                    => /\ NotesOfTag(resp'.subject.author) = {}
                       /\ NotesNamingTag(resp'.subject.author) = {}
        /\ (RequestOf("/api.v1.CategoryService/DeleteCategory") /\ resp'.ran)
              => /\ NotesOfCategory(resp'.subject.author) # {}
                    => /\ resp'.status.code # CodeOK
                       /\ UNCHANGED <<tags, categories, notes, noteCols, noteTags>>
                 /\ resp'.status.code = CodeOK
                    => NotesOfCategory(resp'.subject.author) = {} ]_vars

\* A tag that two notes have was not deleted.
C25_Witness ==
    /\ resp.op = "/api.v1.TagService/DeleteTag"
    /\ resp.ran
    /\ resp.status.code # CodeOK
    /\ TagExists(resp.subject.author)
    /\ Cardinality(NotesOfTag(resp.subject.author)) = 2

\* C29: the count of every tag is the number of notes note_tags associates
\* with it and is not negative, and the tag ids in the tag_ids column of
\* every note are the tags note_tags associates with the note.
C29_TagCounts ==
    /\ \A t \in 1..Len(tags) :
          tags[t].exists => tags[t].count = Cardinality(NotesOfTag(t)) /\ tags[t].count >= 0
    /\ \A n \in 1..Len(notes) :
          notes[n].exists
              => { noteCols[n].tagIds[k] : k \in 1..Len(noteCols[n].tagIds) } = TagsOfNote(n)

(***************************************************************************)
(* Claims about ListNotes, checked under SpecList.                         *)
(***************************************************************************)
ListNotesAnswered ==
    resp.op = "/api.v1.NoteService/ListNotes" /\ resp.status.code = CodeOK

\* The notes of the table the identity of the request may not read.
UnreadableNotes ==
    { id \in 1..Len(notes) :
        notes[id].exists
            /\ ~CanRead(ScanVisibility(notes[id].visibility), notes[id].author) }

WithoutNotes(S) ==
    [ id \in 1..Len(notes) |->
        IF id \in S THEN [exists |-> FALSE, author |-> 0, visibility |-> VisibilityPublic,
                          published |-> FALSE, publishedAt |-> 0]
        ELSE notes[id] ]

\* C28: the notes, total and number of pages of a ListNotes response are
\* those the same request of the same identity gets from the table without
\* any of the notes the identity may not read.
C28_ListNotesNoninterference ==
    ListNotesAnswered
        => \A S \in SUBSET UnreadableNotes :
              \E rows \in ListNotesOrders(WithoutNotes(S), ListNotesStoreRequest(listing.req)) :
                  APIV1Service_ListNotes(WithoutNotes(S), listing.req,
                      [present |-> resp.uid # 0, ID |-> resp.uid, Role |-> resp.role],
                      rows).listing = listing

(***************************************************************************)
(* Claims about ListAttachments, checked under SpecAttachList.             *)
(***************************************************************************)
ListAttachmentsHandled ==
    resp.op = "/api.v1.AttachmentService/ListAttachments" /\ resp.ran

C26_SameDecision ==
    \A id \in 1..Len(attachments), authHeader \in Headers :
        StoreGetAttachment(id).found
            => ( APIV1Service_GetAttachment(fetchCurrentUser(Authenticate(authHeader, now)),
                                            id).code = CodeOK
                 <=> checkAttachmentPermission(authHeader, StoreGetAttachment(id)).code = HTTPOK )

(***************************************************************************)
(* Claim about RegisterUser calls side by side, checked under SpecRace.    *)
(***************************************************************************)
\* C27: of the users that RegisterUser calls running side by side on an
\* empty users table create, at most one has role HOST.
C27_OneHost ==
    Cardinality({ i \in 1..Len(users) : users[i].role = RoleHost }) <= 1

(***************************************************************************)
(* Claim about the web client, checked under SpecClient.                   *)
(***************************************************************************)
\* C30: from the end of a logout to the next login call the current user
\* is undefined and no access token is stored, in memory or in
\* sessionStorage, whatever initialize calls were under way at the logout.
C30_LoggedOutStays ==
    client.loggedOut
        => /\ client.currentUser = ""
           /\ client.accessToken = ""
           /\ client.sessionToken = ""

====
